---- MODULE Spec2Model ----
(***************************************************************************)
(* The task lifecycle of the ailabber Local Proxy: the task store rows,    *)
(* the submit / local-run / attach / cancel / status / logs / fetch        *)
(* handlers of server/local_proxy/routes.py, the services they call, and   *)
(* the background poll loop of services/polling_service.py.                *)
(*                                                                         *)
(* Every handler works on its own SQLAlchemy session: it loads a row, and  *)
(* its commit writes the attributes it assigned, whatever other sessions   *)
(* committed in between.  A handler that blocks on sbatch, rsync, scancel, *)
(* sacct or an HTTP call is split at that call.                            *)
(*                                                                         *)
(* Spec is the packaged proxy (server/local_proxy/) with its poll thread,  *)
(* SpecApi its HTTP frontend under arbitrary clients, SpecFile the         *)
(* single-file proxy (server/local_proxy.py), and SpecUpdate               *)
(* TaskService.update_task_status called on its own.  SpecStage is two      *)
(* concurrent remote submits of one user, SpecPoll and SpecPollCancel the  *)
(* poll loop over two running tasks, SpecSettle the poll loop against a    *)
(* job that runs its course; SpecMap, SpecCopy and SpecArchive are         *)
(* map_slurm_state, FileService.copy_to_temp and the result archive        *)
(* called on their own.                                                    *)
(*                                                                         *)
(* SpecQuery, SpecSbatch and SpecScript are get_slurm_job_status,          *)
(* submit_slurm_job under the local submit, and generate_slurm_script      *)
(* against the stored command string.  SpecMain and SpecRace are           *)
(* PollingService.start / stop with the poll thread, called by one caller  *)
(* and by two at once.  SpecHttp is SpecApi with requests whose body is    *)
(* no JSON object.                                                         *)
(***************************************************************************)
EXTENDS Integers, Sequences, FiniteSets, TLC

\* ---- bounds of the model ----
MaxTasks == 1
MaxClock == 4
MaxJobs == 1
MaxStateLen == 3
MaxIgnore == 2
MaxPaths == 1
MaxRows == 2
MaxOut == 3
MaxCmds == 3
MaxThreads == 3

TaskIds == 1..MaxTasks
JobIds == 1..MaxJobs

\* ---- values ----
None == <<>>
Some(v) == <<v>>

Users == {"alice", "bob"}
Owners == {"alice"}
Registered == {"alice"}
NoUser == "<absent>"
UserParams == Users \cup {"", NoUser}
Targets == {"local", "remote", "gpu"}

Terminal == {"completed", "failed", "canceled"}
Unified == {"pending", "running", "completed", "failed", "canceled"}

\* Python truthiness of an optional string (None and "" are falsy).
Truthy(s) == s # NoUser /\ s # ""

\* ---- utils/slurm.py ----
SLURM_STATE_MAP ==
    [PENDING |-> "pending", RUNNING |-> "running", COMPLETED |-> "completed",
     FAILED |-> "failed", CANCELLED |-> "canceled", TIMEOUT |-> "failed",
     NODE_FAIL |-> "failed", PREEMPTED |-> "failed", OUT_OF_MEMORY |-> "failed"]

\* A Slurm state string is a sequence of pieces: words, and Space for a run
\* of whitespace.  Adjacent words form one longer word.
Space == " "

\* str.split(): the maximal runs of non-whitespace pieces, in order.
RECURSIVE split(_)
split(str) ==
    IF str = <<>> THEN <<>>
    ELSE IF Head(str) = Space THEN split(Tail(str))
    ELSE LET rest == split(Tail(str))
         IN IF Len(str) >= 2 /\ str[2] # Space
            THEN <<(<<Head(str)>> \o Head(rest))>> \o Tail(rest)
            ELSE <<(<<Head(str)>>)>> \o rest

\* map_slurm_state: the first token of a non-empty string, looked up in the
\* table.  A string of whitespace only is truthy and splits into no token:
\* `[0]` raises IndexError.
map_slurm_state(slurm_state) ==
    IF slurm_state # <<>> /\ split(slurm_state) = <<>> THEN "IndexError"
    ELSE LET base_state == IF slurm_state # <<>> THEN split(slurm_state)[1]
                           ELSE <<"UNKNOWN">>
         IN IF Len(base_state) = 1 /\ base_state[1] \in DOMAIN SLURM_STATE_MAP
            THEN SLURM_STATE_MAP[base_state[1]] ELSE "unknown"

\* States sacct/squeue can report: the mapped ones, one with a reason
\* suffix, and two that the table does not list.
SlurmStates ==
    {<<s>> : s \in DOMAIN SLURM_STATE_MAP}
      \cup {<<"PENDING", Space, "(Resources)">>, <<"SUSPENDED">>, <<"COMPLETING">>}

ExitCodes == {None, Some(0), Some(1)}

\* get_slurm_job_status: None, or a SlurmJobInfo (state, exit_code).
JobInfos == [state : SlurmStates, exit_code : ExitCodes]

VARIABLES
    db,         \* tasks table: sequence of rows, task_id = index
    total_tasks,\* users table: total_tasks of each registered user
    msglog,     \* message_log table: msg_type and task of each entry, in order
    clock,      \* wall clock, one tick per handler that reads datetime.now()
    nextJob,    \* next job id Slurm hands out
    req,        \* per task: where the creating request (submit / local-run CLI) is
    can,        \* per task: the in-flight cancel request: the job id it loaded, the
                \* time it read, the Slurm cancellation it issued
    poll,       \* the poll thread: position, rows it loaded, tasks left in the loop
    ev,         \* what the last step did: handler, task, response code, external calls
    slurm,      \* the state Slurm reports for each job, where the jobs' course is
                \* modelled; empty where every status answer is possible
    svc         \* the PollingService object and its threads, where start() and
                \* stop() are modelled: polling_thread, stop_event, the state of
                \* every Thread created, where each caller of start/stop is

vars == <<db, total_tasks, msglog, clock, nextJob, req, can, poll, ev, slurm, svc>>

NoSlurm == <<>>

NoService == <<>>

Exists(t) == t \in 1..Len(db)

\* TaskService.create_task: the row as inserted.
NewRow(username, target) ==
    [username |-> username, target |-> target, status |-> "pending",
     slurm_job_id |-> None, started_at |-> None, completed_at |-> None,
     exit_code |-> None, updated_at |-> None]

NoSnap == NewRow("", "")

Event(op, t, code, effects) ==
    [op |-> op, task |-> t, code |-> code, effects |-> effects]

IdleReq == [pc |-> "none", job |-> None]
IdleCan == [pc |-> "idle", job |-> None, now |-> 0, effects |-> {}]
IdlePoll == [pc |-> "idle", todo |-> <<>>, snap |-> <<>>, cur |-> 0, row |-> NoSnap,
             expired |-> FALSE]

Init ==
    /\ db = <<>>
    /\ total_tasks = [u \in Registered |-> 0]
    /\ msglog = <<>>
    /\ clock = 0
    /\ nextJob = 1
    /\ req = [t \in TaskIds |-> IdleReq]
    /\ can = [t \in TaskIds |-> IdleCan]
    /\ poll = IdlePoll
    /\ slurm = NoSlurm
    /\ svc = NoService
    /\ ev = Event("init", 0, 0, {})

\* ---- TaskService ----

\* session.commit() flushes an attribute only when its value differs from
\* the value the session loaded; otherwise the stored value stays.
Flush(cur, snap, new) == IF new = snap THEN cur ELSE new

\* update_task_status without the started_at assignment.
update_task_status_NoStartedAt(cur, snap, status, slurm_job_id, exit_code, now) ==
    LET terminal == status \in {"completed", "failed", "canceled"}
    IN [cur EXCEPT
          !.status = Flush(@, snap.status, status),
          !.slurm_job_id = IF slurm_job_id # None
                           THEN Flush(@, snap.slurm_job_id, slurm_job_id) ELSE @,
          !.completed_at = IF terminal THEN Some(now) ELSE @,
          !.exit_code = IF terminal /\ exit_code # None
                        THEN Flush(@, snap.exit_code, exit_code) ELSE @,
          !.updated_at = Some(now)]

\* TaskService.update_task_status: the row after the commit, given the row
\* the session loaded (snap) and the row now stored (cur).
update_task_status(cur, snap, status, slurm_job_id, exit_code, now) ==
    LET terminal == status \in {"completed", "failed", "canceled"}
    IN [cur EXCEPT
          !.status = Flush(@, snap.status, status),
          !.slurm_job_id = IF slurm_job_id # None
                           THEN Flush(@, snap.slurm_job_id, slurm_job_id) ELSE @,
          !.started_at = IF status = "running" /\ snap.started_at = None
                         THEN Some(now) ELSE @,
          !.completed_at = IF terminal THEN Some(now) ELSE @,
          !.exit_code = IF terminal /\ exit_code # None
                        THEN Flush(@, snap.exit_code, exit_code) ELSE @,
          !.updated_at = Some(now)]

\* cancel_task without the completed_at assignment.
cancel_task_row_NoCompletedAt(cur, now) ==
    [cur EXCEPT !.status = "canceled", !.updated_at = Some(now)]

\* TaskService.cancel_task: the row after the commit.
cancel_task_row(cur, now) ==
    [cur EXCEPT !.status = "canceled",
                !.completed_at = Some(now),
                !.updated_at = Some(now)]

\* TaskService.create_task: insert, user counter, message log, commit.
create_task(username, target) ==
    /\ db' = Append(db, NewRow(username, target))
    /\ total_tasks' = IF username \in DOMAIN total_tasks
                      THEN [total_tasks EXCEPT ![username] = @ + 1]
                      ELSE total_tasks
    /\ msglog' = Append(msglog, [msg_type |-> "task_submit", task_id |-> Len(db) + 1])

\* ---- routes.py: POST /api/submit ----

\* The row the submit handler's session holds: the one it inserted.
SubmitSnap(t) == NewRow(db[t].username, db[t].target)

Advance(t, pc) == req' = [req EXCEPT ![t].pc = pc]

\* routes.py 33-34: username or commands missing.
SubmitInvalid(hasUser, hasCmd) ==
    /\ ~(hasUser /\ hasCmd)
    /\ ev' = Event("submit", 0, 400, {})
    /\ UNCHANGED <<db, total_tasks, msglog, clock, nextJob, req, can, poll, slurm, svc>>

\* routes.py 36-58 and 120-124: create the pending row, then branch on target.
SubmitCreate(username, target) ==
    LET t == Len(db) + 1 IN
    /\ t \in TaskIds
    /\ create_task(username, target)
    /\ IF target = "local" THEN Advance(t, "sbatch") /\ ev' = Event("submit", t, 0, {})
       ELSE IF target = "remote" THEN Advance(t, "staging") /\ ev' = Event("submit", t, 0, {})
       ELSE Advance(t, "done") /\ ev' = Event("submit", t, 400, {})
    /\ UNCHANGED <<clock, nextJob, can, poll, slurm, svc>>

\* routes.py 61-78: LocalSlurmService.submit_job returns, the row is updated.
\* outcome: "ok" (sbatch gave a job id), "sbatch_failed", "error" (exception
\* before sbatch ran; submit_job catches it and reports failure).
SubmitLocal(t, outcome) ==
    /\ Exists(t) /\ req[t].pc = "sbatch"
    /\ clock < MaxClock
    /\ clock' = clock + 1
    /\ IF outcome = "ok"
       THEN /\ nextJob \in JobIds
            /\ nextJob' = nextJob + 1
            /\ db' = [db EXCEPT ![t] = update_task_status(@, SubmitSnap(t), "running",
                                                         Some(nextJob), None, clock')]
            /\ ev' = Event("submit", t, 200, {"sbatch"})
       ELSE /\ nextJob' = nextJob
            /\ db' = [db EXCEPT ![t] = update_task_status(@, SubmitSnap(t), "failed",
                                                         None, None, clock')]
            /\ ev' = Event("submit", t, 500,
                           IF outcome = "sbatch_failed" THEN {"sbatch"} ELSE {})
    /\ Advance(t, "done")
    /\ UNCHANGED <<total_tasks, msglog, can, poll, slurm, svc>>

\* routes.py 85-92: FileService.copy_to_temp.  outcome: "ok", "empty" (the
\* upload directory does not exist, "" is returned), "raise" (rmtree / copy2
\* raises; only the handler's outer except catches it).
SubmitStage(t, outcome) ==
    /\ Exists(t) /\ req[t].pc = "staging"
    /\ IF outcome = "ok"
       THEN /\ Advance(t, "rsync")
            /\ ev' = Event("submit", t, 0, {"stage"})
            /\ UNCHANGED <<db, clock>>
       ELSE IF outcome = "empty"
       THEN /\ clock < MaxClock
            /\ clock' = clock + 1
            /\ db' = [db EXCEPT ![t] = update_task_status(@, SubmitSnap(t), "failed",
                                                         None, None, clock')]
            /\ Advance(t, "done")
            /\ ev' = Event("submit", t, 500, {})
       ELSE /\ Advance(t, "done")
            /\ ev' = Event("submit", t, 500, {"stage"})
            /\ UNCHANGED <<db, clock>>
    /\ UNCHANGED <<total_tasks, msglog, nextJob, can, poll, slurm, svc>>

\* The rsync step with its return value ignored: the handler goes on to the
\* remote submit whether or not rsync succeeded.
SubmitRsync_IgnoresFailure(t, ok) ==
    /\ Exists(t) /\ req[t].pc = "rsync"
    /\ Advance(t, "remote_submit")
    /\ ev' = Event("submit", t, 0, {"rsync"})
    /\ UNCHANGED <<db, clock, total_tasks, msglog, nextJob, can, poll, slurm, svc>>

\* routes.py 94-100: FileService.rsync_to_remote (non-zero exit, timeout and
\* exceptions all return False).
SubmitRsync(t, ok) ==
    /\ Exists(t) /\ req[t].pc = "rsync"
    /\ IF ok
       THEN /\ Advance(t, "remote_submit")
            /\ UNCHANGED <<db, clock>>
       ELSE /\ clock < MaxClock
            /\ clock' = clock + 1
            /\ db' = [db EXCEPT ![t] = update_task_status(@, SubmitSnap(t), "failed",
                                                         None, None, clock')]
            /\ Advance(t, "done")
    /\ ev' = Event("submit", t, IF ok THEN 0 ELSE 500, {"rsync"})
    /\ UNCHANGED <<total_tasks, msglog, nextJob, can, poll, slurm, svc>>

\* routes.py 103-119: RemoteSlurmService.submit_job.  outcome: "ok" (HTTP 200
\* with a job id), "ok_nojob" (HTTP 200, no slurm_job_id in the body),
\* "http_error" (other status), "unreachable" (transport error).
SubmitRemote(t, outcome) ==
    /\ Exists(t) /\ req[t].pc = "remote_submit"
    /\ clock < MaxClock
    /\ clock' = clock + 1
    /\ IF outcome = "ok"
       THEN /\ nextJob \in JobIds
            /\ nextJob' = nextJob + 1
            /\ db' = [db EXCEPT ![t] = update_task_status(@, SubmitSnap(t), "running",
                                                         Some(nextJob), None, clock')]
            /\ ev' = Event("submit", t, 200, {"remote_submit"})
       ELSE IF outcome = "ok_nojob"
       THEN /\ nextJob' = nextJob
            /\ db' = [db EXCEPT ![t] = update_task_status(@, SubmitSnap(t), "running",
                                                         None, None, clock')]
            /\ ev' = Event("submit", t, 200, {"remote_submit"})
       ELSE /\ nextJob' = nextJob
            /\ db' = [db EXCEPT ![t] = update_task_status(@, SubmitSnap(t), "failed",
                                                         None, None, clock')]
            /\ ev' = Event("submit", t, 500, {"remote_submit"})
    /\ Advance(t, "done")
    /\ UNCHANGED <<total_tasks, msglog, can, poll, slurm, svc>>

\* ---- routes.py: POST /api/local-run, POST /api/local-run/<task_id>/slurm ----

\* routes.py 139-141: no body or no username.
LocalRunInvalid ==
    /\ ev' = Event("local-run", 0, 400, {})
    /\ UNCHANGED <<db, total_tasks, msglog, clock, nextJob, req, can, poll, slurm, svc>>

\* routes.py 143-158: the CLI's first request creates the record.
LocalRunCreate(username) ==
    LET t == Len(db) + 1 IN
    /\ t \in TaskIds
    /\ create_task(username, "local-run")
    /\ Advance(t, "cli_sbatch")
    /\ ev' = Event("local-run", t, 200, {})
    /\ UNCHANGED <<clock, nextJob, can, poll, slurm, svc>>

\* local_run.py 68-105: the CLI builds the script and runs sbatch itself.
\* On failure it prints the error and returns.
LocalRunSbatch(t, ok) ==
    /\ Exists(t) /\ req[t].pc = "cli_sbatch"
    /\ IF ok
       THEN /\ nextJob \in JobIds
            /\ nextJob' = nextJob + 1
            /\ req' = [req EXCEPT ![t] = [pc |-> "cli_attach", job |-> Some(nextJob)]]
       ELSE /\ nextJob' = nextJob
            /\ Advance(t, "done")
    /\ ev' = Event("cli", t, 0, {"sbatch"})
    /\ UNCHANGED <<db, total_tasks, msglog, clock, can, poll, slurm, svc>>

\* routes.py 168-195, update_local_run_slurm: the effect on the store.
update_local_run_slurm(t, slurm_job_id) ==
    IF slurm_job_id = None
    THEN /\ ev' = Event("attach", t, 400, {})
         /\ UNCHANGED <<db, clock>>
    ELSE IF ~Exists(t)
    THEN /\ ev' = Event("attach", t, 404, {})
         /\ UNCHANGED <<db, clock>>
    ELSE /\ clock < MaxClock
         /\ clock' = clock + 1
         /\ db' = [db EXCEPT ![t] = update_task_status(@, @, "running",
                                                      slurm_job_id, None, clock')]
         /\ ev' = Event("attach", t, 200, {})

\* local_run.py 107-114: the CLI posts the job id; the request may not reach
\* the proxy (transport error), and then the CLI only prints the error.
LocalRunAttach(t, delivered) ==
    /\ Exists(t) /\ req[t].pc = "cli_attach"
    /\ IF delivered
       THEN update_local_run_slurm(t, req[t].job)
       ELSE /\ ev' = Event("cli", t, 0, {})
            /\ UNCHANGED <<db, clock>>
    /\ req' = [req EXCEPT ![t] = [pc |-> "done", job |-> None]]
    /\ UNCHANGED <<total_tasks, msglog, nextJob, can, poll, slurm, svc>>

\* ---- routes.py: owner check shared by status, logs, fetch and cancel ----

\* The owner check left out.
OwnerMismatch_Skipped(username, row) == FALSE

\* `if username and task.username != username`
OwnerMismatch(username, row) == Truthy(username) /\ row.username # username

\* ---- routes.py: POST /api/cancel/<task_id> ----

\* The cancel handler with a terminal check that lets a canceled task through.
CancelCheck_CanceledPasses(t, username) ==
    /\ can[t].pc = "idle"
    /\ IF ~Exists(t)
       THEN /\ ev' = Event("cancel", t, 404, {})
            /\ can' = can
       ELSE IF OwnerMismatch(username, db[t])
       THEN /\ ev' = Event("cancel", t, 403, {})
            /\ can' = can
       ELSE IF db[t].status \in {"completed", "failed"}
       THEN /\ ev' = Event("cancel", t, 400, {})
            /\ can' = can
       ELSE /\ ev' = Event("cancel", t, 0, {})
            /\ can' = [can EXCEPT ![t] = [IdleCan EXCEPT !.pc = "checked",
                                                          !.job = db[t].slurm_job_id]]
    /\ UNCHANGED <<db, total_tasks, msglog, clock, nextJob, req, poll, slurm, svc>>

\* routes.py 338-353: load the row, owner check, terminal check.
CancelCheck(t, username) ==
    /\ can[t].pc = "idle"
    /\ IF ~Exists(t)
       THEN /\ ev' = Event("cancel", t, 404, {})
            /\ can' = can
       ELSE IF OwnerMismatch(username, db[t])
       THEN /\ ev' = Event("cancel", t, 403, {})
            /\ can' = can
       ELSE IF db[t].status \in {"completed", "failed", "canceled"}
       THEN /\ ev' = Event("cancel", t, 400, {})
            /\ can' = can
       ELSE /\ ev' = Event("cancel", t, 0, {})
            /\ can' = [can EXCEPT ![t] = [IdleCan EXCEPT !.pc = "checked",
                                                          !.job = db[t].slurm_job_id]]
    /\ UNCHANGED <<db, total_tasks, msglog, clock, nextJob, req, poll, slurm, svc>>

\* utils/slurm.py cancel_slurm_job: success only when scancel exits 0; a
\* non-zero exit, a timeout and a missing binary all return False.
cancel_slurm_job(outcome) == outcome = "exit0"

\* RemoteSlurmService.cancel_job: success only on HTTP 200; another status
\* and any exception return False.
cancel_job(outcome) == outcome = "http200"

\* The outcomes of the Slurm cancellation for the row the handler loaded.
CancelOutcomes(slurm_job_id, target) ==
    IF slurm_job_id = None THEN {"none"}
    ELSE IF target \in {"local", "local-run"} THEN {"exit0", "nonzero", "timeout", "missing"}
    ELSE IF target = "remote" THEN {"http200", "non200", "transport"}
    ELSE {"none"}

\* routes.py 355-364: which Slurm cancellation the handler issues, for the
\* job id and target of the row it loaded; a failure is only logged.
CancelEffects(slurm_job_id, target, outcome) ==
    IF slurm_job_id = None THEN {}
    ELSE IF target \in {"local", "local-run"}
         THEN {"scancel"} \cup (IF cancel_slurm_job(outcome) THEN {} ELSE {"cancel_failed"})
    ELSE IF target = "remote"
         THEN {"remote_cancel"} \cup (IF cancel_job(outcome) THEN {} ELSE {"cancel_failed"})
    ELSE {}

\* routes.py 355-367 and task_service.py 139-142: the Slurm cancellation
\* returns, then TaskService.cancel_task assigns status, completed_at and
\* updated_at from datetime.now().
CancelSlurm(t, outcome) ==
    /\ can[t].pc = "checked"
    /\ outcome \in CancelOutcomes(can[t].job, db[t].target)
    /\ clock < MaxClock
    /\ clock' = clock + 1
    /\ can' = [can EXCEPT ![t].pc = "stamped", ![t].now = clock',
                          ![t].effects = CancelEffects(can[t].job, db[t].target, outcome)]
    /\ ev' = Event("cancel", t, 0, can'[t].effects)
    /\ UNCHANGED <<db, total_tasks, msglog, nextJob, req, poll, slurm, svc>>

\* task_service.py 144-157 and routes.py 369-370: the message-log entry is
\* added and the session commits; the handler answers 200.
CancelCommit(t) ==
    /\ can[t].pc = "stamped"
    /\ db' = [db EXCEPT ![t] = cancel_task_row(@, can[t].now)]
    /\ msglog' = Append(msglog, [msg_type |-> "task_cancel", task_id |-> t])
    /\ can' = [can EXCEPT ![t] = IdleCan]
    /\ ev' = Event("cancel", t, 200, can[t].effects)
    /\ UNCHANGED <<total_tasks, clock, nextJob, req, poll, slurm, svc>>

\* ---- routes.py: GET status, logs, fetch ----

\* routes.py 198-222.
StatusRequest(t, username) ==
    /\ ev' = Event("status", t,
                   IF ~Exists(t) THEN 404
                   ELSE IF OwnerMismatch(username, db[t]) THEN 403 ELSE 200, {})
    /\ UNCHANGED <<db, total_tasks, msglog, clock, nextJob, req, can, poll, slurm, svc>>

\* routes.py 380-416.  ok: the remote log request succeeded.
LogsRequest(t, username, ok) ==
    /\ ev' = IF ~Exists(t) THEN Event("logs", t, 404, {})
             ELSE IF OwnerMismatch(username, db[t]) THEN Event("logs", t, 403, {})
             ELSE IF db[t].target \in {"local", "local-run"}
                  THEN Event("logs", t, 200, {"read_logs"})
             ELSE IF db[t].target = "remote"
                  THEN Event("logs", t, IF ok THEN 200 ELSE 500, {"remote_logs"})
             ELSE Event("logs", t, 400, {})
    /\ UNCHANGED <<db, total_tasks, msglog, clock, nextJob, req, can, poll, slurm, svc>>

\* routes.py 248-330.  ok: the archive was built / the remote fetch succeeded.
FetchRequest(t, username, ok) ==
    /\ ev' = IF ~Exists(t) THEN Event("fetch", t, 404, {})
             ELSE IF OwnerMismatch(username, db[t]) THEN Event("fetch", t, 403, {})
             ELSE IF db[t].target = "local"
                  THEN Event("fetch", t, IF ok THEN 200 ELSE 500, {"archive"})
             ELSE IF db[t].target = "remote"
                  THEN Event("fetch", t, IF ok THEN 200 ELSE 500, {"remote_fetch"})
             ELSE Event("fetch", t, 400, {})
    /\ UNCHANGED <<db, total_tasks, msglog, clock, nextJob, req, can, poll, slurm, svc>>

\* ---- services/polling_service.py ----

\* The orders in which a query can return the rows S.
Orders(S) ==
    {o \in [1..Cardinality(S) -> S] : \A i, j \in DOMAIN o : i # j => o[i] # o[j]}

\* polling_service.py 56-66: a row is queried when it has a job id and its
\* target has a branch.
Eligible(task) ==
    task.slurm_job_id # None /\ task.target \in {"local", "local-run", "remote"}

\* polling_service.py 55-66: run the for loop over todo up to its next
\* status query.  A commit earlier in the iteration expired the session's
\* objects, so the first attribute read of a task reloads its row from rows;
\* otherwise the row is the one the query loaded (snap).  When the list is
\* exhausted: session.close() and the wait for the next iteration.
RECURSIVE PollAdvance(_, _, _, _)
PollAdvance(todo, snap, expired, rows) ==
    IF todo = <<>> THEN IdlePoll
    ELSE LET t == Head(todo)
             task == IF expired THEN rows[t] ELSE snap[t]
         IN IF Eligible(task)
            THEN [pc |-> "query", todo |-> Tail(todo),
                  snap |-> IF expired THEN <<>> ELSE snap,
                  cur |-> t, row |-> task, expired |-> expired]
            ELSE PollAdvance(Tail(todo), snap, expired, rows)

\* polling_service.py 47-53: a new iteration loads every running / pending
\* row, in the order the store returns them.
PollQuery ==
    /\ poll.pc = "idle"
    /\ LET running_tasks == {t \in 1..Len(db) : db[t].status \in {"running", "pending"}}
       IN /\ running_tasks # {}
          /\ \E o \in Orders(running_tasks) :
                poll' = PollAdvance(o, [t \in running_tasks |-> db[t]], FALSE, db)
    /\ ev' = Event("poll", 0, 0, {})
    /\ UNCHANGED <<db, total_tasks, msglog, clock, nextJob, req, can, slurm, svc>>

\* remote_server/routes.py 68-88, get_status: the body of a 200 answer.
get_status(job_info) ==
    [status |-> map_slurm_state(job_info.state), exit_code |-> job_info.exit_code]

\* polling_service.py 81-107, _poll_local_task / _poll_remote_task: the
\* unified state the poll derives from a status answer.
PolledStatus(task, job_info) ==
    IF task.target = "remote" THEN get_status(job_info).status
    ELSE map_slurm_state(job_info.state)

\* The poll giving up on a task whose status query returned nothing: the
\* row is committed as failed.
PollNoResult_MarksFailed ==
    /\ poll.pc = "query"
    /\ clock < MaxClock
    /\ clock' = clock + 1
    /\ db' = [db EXCEPT ![poll.cur] = update_task_status(@, poll.row, "failed",
                                                        None, None, clock')]
    /\ poll' = PollAdvance(poll.todo, <<>>, TRUE, db')
    /\ ev' = Event("poll", poll.cur, 0, {"status_query"})
    /\ UNCHANGED <<total_tasks, msglog, nextJob, req, can, slurm, svc>>

\* The poll loop with a failed status query ending the iteration, as if the
\* failure escaped the per-task handling.
PollNoResult_AbortsIteration ==
    /\ poll.pc = "query"
    /\ poll' = IdlePoll
    /\ ev' = Event("poll", poll.cur, 0, {"status_query"})
    /\ UNCHANGED <<db, total_tasks, msglog, clock, nextJob, req, can, slurm, svc>>

\* polling_service.py 81-107: the status query returned nothing (sacct and
\* squeue failed, the remote server answered non-200 or was unreachable).
PollNoResult ==
    /\ poll.pc = "query"
    /\ poll' = PollAdvance(poll.todo, poll.snap, poll.expired, db)
    /\ ev' = Event("poll", poll.cur, 0, {"status_query"})
    /\ UNCHANGED <<db, total_tasks, msglog, clock, nextJob, req, can, slurm, svc>>

\* polling_service.py 68-69 and task_service.py 131-134: the derived state
\* differs but the commit of update_task_status raises; the session is
\* rolled back (which expires its objects), the exception is raised again,
\* caught by the loop's per-task handler and logged.
PollUpdateRaises(job_info) ==
    /\ poll.pc = "query"
    /\ PolledStatus(poll.row, job_info) # poll.row.status
    /\ poll' = PollAdvance(poll.todo, <<>>, TRUE, db)
    /\ ev' = Event("poll", poll.cur, 0, {"status_query", "update_failed"})
    /\ UNCHANGED <<db, total_tasks, msglog, clock, nextJob, req, can, slurm, svc>>

\* The poll with the exit code of the status answer not passed on.
PollResult_DropsExitCode(job_info) ==
    /\ poll.pc = "query"
    /\ LET t == poll.cur
           task == poll.row
           new_status == PolledStatus(task, job_info)
       IN IF new_status # task.status
          THEN /\ clock < MaxClock
               /\ clock' = clock + 1
               /\ db' = [db EXCEPT ![t] = update_task_status(@, task, new_status, None,
                                                            None, clock')]
               /\ poll' = PollAdvance(poll.todo, <<>>, TRUE, db')
          ELSE /\ poll' = PollAdvance(poll.todo, poll.snap, poll.expired, db)
               /\ UNCHANGED <<db, clock>>
    /\ ev' = Event("poll", poll.cur, 0, {"status_query"})
    /\ UNCHANGED <<total_tasks, msglog, nextJob, req, can, slurm, svc>>

\* polling_service.py 81-107: the status query returned job_info.
PollResult(job_info) ==
    /\ poll.pc = "query"
    /\ LET t == poll.cur
           task == poll.row
           new_status == PolledStatus(task, job_info)
       IN IF new_status # task.status
          THEN /\ clock < MaxClock
               /\ clock' = clock + 1
               /\ db' = [db EXCEPT ![t] = update_task_status(@, task, new_status, None,
                                                            job_info.exit_code, clock')]
               /\ poll' = PollAdvance(poll.todo, <<>>, TRUE, db')
          ELSE /\ poll' = PollAdvance(poll.todo, poll.snap, poll.expired, db)
               /\ UNCHANGED <<db, clock>>
    /\ ev' = Event("poll", poll.cur, 0, {"status_query"})
    /\ UNCHANGED <<total_tasks, msglog, nextJob, req, can, slurm, svc>>

\* ---- the Local Proxy ----

AllCancelOutcomes ==
    {"none", "exit0", "nonzero", "timeout", "missing", "http200", "non200", "transport"}

Submit ==
    \/ \E u \in Owners, g \in Targets : SubmitCreate(u, g)
    \/ \E t \in TaskIds : \E o \in {"ok", "sbatch_failed", "error"} : SubmitLocal(t, o)
    \/ \E t \in TaskIds : \E o \in {"ok", "empty", "raise"} : SubmitStage(t, o)
    \/ \E t \in TaskIds : \E ok \in BOOLEAN : SubmitRsync(t, ok)
    \/ \E t \in TaskIds : \E o \in {"ok", "ok_nojob", "http_error", "unreachable"} :
          SubmitRemote(t, o)

LocalRun ==
    \/ \E u \in Owners : LocalRunCreate(u)
    \/ \E t \in TaskIds : \E ok \in BOOLEAN : LocalRunSbatch(t, ok)
    \/ \E t \in TaskIds : \E delivered \in BOOLEAN : LocalRunAttach(t, delivered)

Poll ==
    \/ PollQuery
    \/ PollNoResult
    \/ \E job_info \in JobInfos : PollResult(job_info)

\* Requests of the owner's own CLI: it sends its username with every request.
OwnerCancel ==
    \/ \E t \in TaskIds : CancelCheck(t, IF Exists(t) THEN db[t].username ELSE NoUser)
    \/ \E t \in TaskIds : \E o \in AllCancelOutcomes : CancelSlurm(t, o)
    \/ \E t \in TaskIds : CancelCommit(t)

\* Requests of any client: any username parameter, or none.
AnyCancel ==
    \/ \E t \in TaskIds : \E u \in UserParams : CancelCheck(t, u)
    \/ \E t \in TaskIds : \E o \in AllCancelOutcomes : CancelSlurm(t, o)
    \/ \E t \in TaskIds : CancelCommit(t)

Invalid ==
    \/ \E hasUser, hasCmd \in BOOLEAN : SubmitInvalid(hasUser, hasCmd)
    \/ LocalRunInvalid

Read ==
    \/ \E t \in TaskIds : \E u \in UserParams : StatusRequest(t, u)
    \/ \E t \in TaskIds : \E u \in UserParams : \E ok \in BOOLEAN : LogsRequest(t, u, ok)
    \/ \E t \in TaskIds : \E u \in UserParams : \E ok \in BOOLEAN : FetchRequest(t, u, ok)

\* The proxy with its poll thread, serving the CLI of the task owners.
Next == Submit \/ LocalRun \/ OwnerCancel \/ Poll

Spec == Init /\ [][Next]_vars

\* The HTTP frontend on its own, serving arbitrary clients.
NextApi == Submit \/ LocalRun \/ AnyCancel \/ Invalid \/ Read

SpecApi == Init /\ [][NextApi]_vars

\* ---- server/local_proxy.py: the single-file proxy ----

\* local_proxy.py 71-82, safe_update_task: setattr of every keyword, then
\* updated_at, then commit.  kwargs is a record of the keywords given.
safe_update_task(cur, snap, kwargs, now) ==
    [f \in DOMAIN cur |->
        IF f = "updated_at" THEN Some(now)
        ELSE IF f \in DOMAIN kwargs THEN Flush(cur[f], snap[f], kwargs[f])
        ELSE cur[f]]

\* local_proxy.py 500-511, update_task_from_slurm, and the remote branch of
\* poll_task_status (474-481): the row after the commit.
update_task_from_slurm(cur, snap, exit_code, new_status, now) ==
    IF new_status # snap.status
    THEN [cur EXCEPT
            !.status = new_status,
            !.completed_at = IF new_status \in {"completed", "failed", "canceled"}
                             THEN Some(now) ELSE @,
            !.exit_code = IF new_status \in {"completed", "failed", "canceled"}
                          THEN Flush(@, snap.exit_code, exit_code) ELSE @,
            !.updated_at = Some(now)]
    ELSE cur

\* local_proxy.py 560-630, submit_task: validate, insert the pending row,
\* user counter, message log, commit, then branch on target.
FileSubmitCreate(username, target) ==
    LET t == Len(db) + 1 IN
    /\ t \in TaskIds
    /\ create_task(username, target)
    /\ IF target \in {"local", "remote"}
       THEN Advance(t, "submitting") /\ ev' = Event("submit", t, 0, {})
       ELSE Advance(t, "done") /\ ev' = Event("submit", t, 400, {})
    /\ UNCHANGED <<clock, nextJob, can, poll, slurm, svc>>

\* local_proxy.py 243-331, submit_local_slurm.  outcome: "ok", "sbatch_failed",
\* "error" (an exception before or at sbatch).
submit_local_slurm(t, outcome) ==
    /\ Exists(t) /\ req[t].pc = "submitting" /\ db[t].target = "local"
    /\ clock < MaxClock
    /\ clock' = clock + 1
    /\ IF outcome = "ok"
       THEN /\ nextJob \in JobIds
            /\ nextJob' = nextJob + 1
            /\ db' = [db EXCEPT ![t] = safe_update_task(@, SubmitSnap(t),
                        [status |-> "running", slurm_job_id |-> Some(nextJob),
                         started_at |-> Some(clock')], clock')]
            /\ ev' = Event("submit", t, 200, {"sbatch"})
       ELSE /\ nextJob' = nextJob
            /\ db' = [db EXCEPT ![t] = safe_update_task(@, SubmitSnap(t),
                        [status |-> "failed"], clock')]
            /\ ev' = Event("submit", t, 500,
                           IF outcome = "sbatch_failed" THEN {"sbatch"} ELSE {})
    /\ Advance(t, "done")
    /\ UNCHANGED <<total_tasks, msglog, can, poll, slurm, svc>>

\* local_proxy.py 335-434, submit_remote_slurm.  outcome: "ok" (HTTP 200 with
\* a job id), "ok_nojob" (HTTP 200 without one), or a failure: "stage_empty",
\* "rsync_failed", "http_error", "unreachable", "error".
submit_remote_slurm(t, outcome) ==
    /\ Exists(t) /\ req[t].pc = "submitting" /\ db[t].target = "remote"
    /\ clock < MaxClock
    /\ clock' = clock + 1
    /\ IF outcome = "ok"
       THEN /\ nextJob \in JobIds
            /\ nextJob' = nextJob + 1
            /\ db' = [db EXCEPT ![t] = safe_update_task(@, SubmitSnap(t),
                        [status |-> "running", slurm_job_id |-> Some(nextJob),
                         started_at |-> Some(clock')], clock')]
            /\ ev' = Event("submit", t, 200, {"remote_submit"})
       ELSE IF outcome = "ok_nojob"
       THEN /\ nextJob' = nextJob
            /\ db' = [db EXCEPT ![t] = safe_update_task(@, SubmitSnap(t),
                        [status |-> "running", slurm_job_id |-> None,
                         started_at |-> Some(clock')], clock')]
            /\ ev' = Event("submit", t, 200, {"remote_submit"})
       ELSE /\ nextJob' = nextJob
            /\ db' = [db EXCEPT ![t] = safe_update_task(@, SubmitSnap(t),
                        [status |-> "failed"], clock')]
            /\ ev' = Event("submit", t, 500,
                           IF outcome \in {"http_error", "unreachable"}
                           THEN {"remote_submit"} ELSE {})
    /\ Advance(t, "done")
    /\ UNCHANGED <<total_tasks, msglog, can, poll, slurm, svc>>

\* local_proxy.py 650-720, create_local_run_task: the row is inserted with
\* updated_at = now; no message-log entry.
FileLocalRunCreate(username) ==
    LET t == Len(db) + 1 IN
    /\ t \in TaskIds
    /\ clock < MaxClock
    /\ clock' = clock + 1
    /\ db' = Append(db, [NewRow(username, "local-run") EXCEPT !.updated_at = Some(clock')])
    /\ total_tasks' = IF username \in DOMAIN total_tasks
                      THEN [total_tasks EXCEPT ![username] = @ + 1]
                      ELSE total_tasks
    /\ Advance(t, "done")
    /\ ev' = Event("local-run", t, 200, {})
    /\ UNCHANGED <<msglog, nextJob, can, poll, slurm, svc>>

\* local_proxy.py 724-767, update_local_run_slurm: job id, status running,
\* started_at and updated_at are assigned unconditionally.
FileAttach(t, slurm_job_id) ==
    /\ IF slurm_job_id = None
       THEN /\ ev' = Event("attach", t, 400, {})
            /\ UNCHANGED <<db, clock>>
       ELSE IF ~Exists(t)
       THEN /\ ev' = Event("attach", t, 404, {})
            /\ UNCHANGED <<db, clock>>
       ELSE /\ clock < MaxClock
            /\ clock' = clock + 1
            /\ db' = [db EXCEPT ![t] = [@ EXCEPT !.slurm_job_id = slurm_job_id,
                                                  !.status = "running",
                                                  !.started_at = Some(clock'),
                                                  !.updated_at = Some(clock')]]
            /\ ev' = Event("attach", t, 200, {})
    /\ UNCHANGED <<total_tasks, msglog, nextJob, req, can, poll, slurm, svc>>

\* local_proxy.py 455-484, poll_task_status: the status query returned
\* job_info (locally) or a 200 body built from it (remotely).
FilePollResult(job_info) ==
    /\ poll.pc = "query"
    /\ LET t == poll.cur
           task == poll.row
           new_status == PolledStatus(task, job_info)
       IN IF new_status # task.status
          THEN /\ clock < MaxClock
               /\ clock' = clock + 1
               /\ db' = [db EXCEPT ![t] = update_task_from_slurm(@, task, job_info.exit_code,
                                                                new_status, clock')]
               /\ poll' = PollAdvance(poll.todo, <<>>, TRUE, db')
          ELSE /\ poll' = PollAdvance(poll.todo, poll.snap, poll.expired, db)
               /\ UNCHANGED <<db, clock>>
    /\ ev' = Event("poll", poll.cur, 0, {"status_query"})
    /\ UNCHANGED <<total_tasks, msglog, nextJob, req, can, slurm, svc>>

\* local_proxy.py 1051-1065, cancel_task: scancel for target local only, a
\* remote cancel for target remote; then the fields are assigned.
FileCancelSlurm(t, outcome) ==
    /\ can[t].pc = "checked"
    /\ outcome \in CancelOutcomes(can[t].job, IF db[t].target = "local-run" THEN "none"
                                               ELSE db[t].target)
    /\ clock < MaxClock
    /\ clock' = clock + 1
    /\ can' = [can EXCEPT ![t].pc = "stamped", ![t].now = clock',
                          ![t].effects = CancelEffects(can[t].job,
                               IF db[t].target = "local-run" THEN "none" ELSE db[t].target,
                               outcome)]
    /\ ev' = Event("cancel", t, 0, can'[t].effects)
    /\ UNCHANGED <<db, total_tasks, msglog, nextJob, req, poll, slurm, svc>>

FileSubmit ==
    \/ \E u \in Owners, g \in Targets : FileSubmitCreate(u, g)
    \/ \E t \in TaskIds : \E o \in {"ok", "sbatch_failed", "error"} : submit_local_slurm(t, o)
    \/ \E t \in TaskIds : \E o \in {"ok", "ok_nojob", "stage_empty", "rsync_failed",
                                    "http_error", "unreachable", "error"} :
          submit_remote_slurm(t, o)

FileLocalRun ==
    \/ \E u \in Owners : FileLocalRunCreate(u)
    \/ \E t \in TaskIds : \E j \in {None} \cup {Some(i) : i \in JobIds} : FileAttach(t, j)

FileCancel ==
    \/ \E t \in TaskIds : CancelCheck(t, IF Exists(t) THEN db[t].username ELSE NoUser)
    \/ \E t \in TaskIds : \E o \in AllCancelOutcomes : FileCancelSlurm(t, o)
    \/ \E t \in TaskIds : CancelCommit(t)

FilePoll ==
    \/ PollQuery
    \/ PollNoResult
    \/ \E job_info \in JobInfos : FilePollResult(job_info)

\* The single-file proxy with its poll thread.
NextFile == FileSubmit \/ FileLocalRun \/ FileCancel \/ FilePoll

SpecFile == Init /\ [][NextFile]_vars

\* ---- TaskService.update_task_status called on its own ----

\* The rows a call can meet: a terminal row has its completed_at, a running
\* row its started_at, and an exit code comes with a completed_at.
UpdateRows ==
    {row \in [username : {"alice"}, target : {"local"}, status : Unified,
              slurm_job_id : {None, Some(1)}, started_at : {None, Some(0)},
              completed_at : {None, Some(0)}, exit_code : {None, Some(0)},
              updated_at : {Some(0)}] :
        /\ row.status \in Terminal => row.completed_at # None
        /\ row.status = "running" => row.started_at # None
        /\ row.exit_code # None => row.completed_at # None}

InitUpdate ==
    /\ db \in {<<row>> : row \in UpdateRows}
    /\ total_tasks = [u \in Registered |-> 0]
    /\ msglog = <<>>
    /\ clock = 0
    /\ nextJob = 1
    /\ req = [t \in TaskIds |-> IdleReq]
    /\ can = [t \in TaskIds |-> IdleCan]
    /\ poll = IdlePoll
    /\ slurm = NoSlurm
    /\ svc = NoService
    /\ ev = Event("init", 0, 0, {})

\* task_service.py 107-134: one call of update_task_status on row 1, on a
\* session that holds the row as stored; the arguments are kept in ev.
UpdateStatusCall(status, slurm_job_id, exit_code) ==
    /\ clock < MaxClock
    /\ clock' = clock + 1
    /\ db' = [db EXCEPT ![1] = update_task_status(@, @, status, slurm_job_id,
                                                 exit_code, clock')]
    /\ ev' = Event("update_status", 1, 0, {<<status, slurm_job_id, exit_code>>})
    /\ UNCHANGED <<total_tasks, msglog, nextJob, req, can, poll, slurm, svc>>

NextUpdate ==
    \E status \in Unified, slurm_job_id \in {None, Some(1)}, exit_code \in ExitCodes :
        UpdateStatusCall(status, slurm_job_id, exit_code)

SpecUpdate == InitUpdate /\ [][NextUpdate]_vars

\* ---- two concurrent remote submits of one user ----

\* The two requests: each has inserted its pending row (routes.py 42-56) and
\* is about to call FileService.copy_to_temp.
StageTasks == {1, 2}

InitStage ==
    /\ db = [t \in StageTasks |-> NewRow("alice", "remote")]
    /\ total_tasks = [u \in Registered |-> 2]
    /\ msglog = [t \in StageTasks |-> [msg_type |-> "task_submit", task_id |-> t]]
    /\ clock = 0
    /\ nextJob = 1
    /\ req = [t \in StageTasks |-> [pc |-> "staging", job |-> None]]
    /\ can = [t \in TaskIds |-> IdleCan]
    /\ poll = IdlePoll
    /\ slurm = NoSlurm
    /\ svc = NoService
    /\ ev = Event("submit", 2, 0, {})

\* routes.py 80-119 run by each of the two handlers, in any interleaving.
NextStage ==
    \/ \E t \in StageTasks : \E o \in {"ok", "empty", "raise"} : SubmitStage(t, o)
    \/ \E t \in StageTasks : \E ok \in BOOLEAN : SubmitRsync(t, ok)
    \/ \E t \in StageTasks : \E o \in {"ok", "ok_nojob", "http_error", "unreachable"} :
          SubmitRemote(t, o)

SpecStage == InitStage /\ [][NextStage]_vars

\* ---- the poll loop over two running tasks ----

PollTasks == {1, 2}

\* Two local submits of alice have succeeded: both rows are running, each
\* with its job id.
InitPoll ==
    /\ db = [t \in PollTasks |->
               [NewRow("alice", "local") EXCEPT !.status = "running",
                                               !.slurm_job_id = Some(t),
                                               !.started_at = Some(0),
                                               !.updated_at = Some(0)]]
    /\ total_tasks = [u \in Registered |-> 2]
    /\ msglog = [t \in PollTasks |-> [msg_type |-> "task_submit", task_id |-> t]]
    /\ clock = 0
    /\ nextJob = 3
    /\ req = [t \in PollTasks |-> [pc |-> "done", job |-> None]]
    /\ can = [t \in PollTasks |-> IdleCan]
    /\ poll = IdlePoll
    /\ slurm = NoSlurm
    /\ svc = NoService
    /\ ev = Event("submit", 2, 200, {"sbatch"})

\* The poll thread on its own; the commit of an update may raise.
NextPoll ==
    \/ PollQuery
    \/ PollNoResult
    \/ \E job_info \in JobInfos : PollResult(job_info)
    \/ \E job_info \in JobInfos : PollUpdateRaises(job_info)

SpecPoll == InitPoll /\ [][NextPoll]_vars

\* The poll thread, and the owner's cancel requests for either task.
NextPollCancel ==
    \/ PollQuery
    \/ PollNoResult
    \/ \E job_info \in JobInfos : PollResult(job_info)
    \/ \E t \in PollTasks : CancelCheck(t, db[t].username)
    \/ \E t \in PollTasks : \E o \in AllCancelOutcomes : CancelSlurm(t, o)
    \/ \E t \in PollTasks : CancelCommit(t)

SpecPollCancel == InitPoll /\ [][NextPollCancel]_vars

\* ---- map_slurm_state called on its own ----

\* The pieces of the strings tried: the keys of the table, a lower-case
\* variant, an unlisted state, a reason, the words of "CANCELLED by 1000",
\* and whitespace.
StatePieces ==
    DOMAIN SLURM_STATE_MAP \cup {"pending", "COMPLETING", "(Resources)", "by", Space}

StateStrings == UNION {[1..n -> StatePieces] : n \in 0..MaxStateLen}

\* ev holds the argument of the call.
InitMap ==
    /\ db = <<>>
    /\ total_tasks = [u \in Registered |-> 0]
    /\ msglog = <<>>
    /\ clock = 0
    /\ nextJob = 1
    /\ req = [t \in TaskIds |-> IdleReq]
    /\ can = [t \in TaskIds |-> IdleCan]
    /\ poll = IdlePoll
    /\ slurm = NoSlurm
    /\ svc = NoService
    /\ \E slurm_state \in StateStrings : ev = Event("map_slurm_state", 0, 0, {slurm_state})

\* slurm.py 284-288: the call returns (or raises); ev holds the argument
\* together with the outcome.
MapCall ==
    /\ ev.op = "map_slurm_state"
    /\ \E slurm_state \in ev.effects :
          ev' = Event("returned", 0, 0, {<<slurm_state, map_slurm_state(slurm_state)>>})
    /\ UNCHANGED <<db, total_tasks, msglog, clock, nextJob, req, can, poll, slurm, svc>>

NextMap == MapCall

SpecMap == InitMap /\ [][NextMap]_vars

\* ---- services/file_service.py: FileService.copy_to_temp on its own ----

\* A path is the sequence of its components, "/" first when it is absolute.
upload_dir == <<"/", "up">>

\* The files an upload tree may hold; s is a symbolic link to a/g.
UploadFiles ==
    {upload_dir \o <<"f">>, upload_dir \o <<"a", "g">>,
     upload_dir \o <<"a", "b", "c">>, upload_dir \o <<"s">>}

UploadTrees ==
    {tree \in SUBSET UploadFiles :
        upload_dir \o <<"s">> \in tree => upload_dir \o <<"a", "g">> \in tree}

\* The strings a request may list in ignore: the empty string, the root,
\* the upload directory, directories and files of the tree, the link, and
\* a path with a ".." component.
IgnorePatterns ==
    {<<>>, <<"/">>, upload_dir, upload_dir \o <<"a">>, upload_dir \o <<"a", "b">>,
     upload_dir \o <<"a", "..", "f">>} \cup UploadFiles

IgnoreLists == {l \in SUBSET IgnorePatterns : Cardinality(l) <= MaxIgnore}

\* Path.resolve(): ".." components are folded away, and the link is followed.
RECURSIVE normalise(_)
normalise(path) ==
    IF \E i \in 2..Len(path) : path[i] = ".."
    THEN LET i == CHOOSE j \in 2..Len(path) :
                     path[j] = ".." /\ \A k \in 2..(j - 1) : path[k] # ".."
         IN normalise(SubSeq(path, 1, i - 2) \o SubSeq(path, i + 1, Len(path)))
    ELSE path

resolve(path) ==
    LET n == normalise(path)
    IN IF n = upload_dir \o <<"s">> THEN upload_dir \o <<"a", "g">> ELSE n

\* Path.parents: every proper ancestor, up to the root.
parents(path) == {SubSeq(path, 1, n) : n \in 1..(Len(path) - 1)}

\* file_service.py 56: the falsy patterns are dropped, the others resolved.
resolved_ignore_set(ignore_patterns) == {resolve(pattern) : pattern \in ignore_patterns \ {<<>>}}

\* should_ignore without the test of the parent directories.
should_ignore_FileOnly(file_path, ignore_set) == resolve(file_path) \in ignore_set

\* file_service.py 58-67, should_ignore.
should_ignore(file_path, ignore_set) ==
    \/ resolve(file_path) \in ignore_set
    \/ \E parent \in parents(file_path) : resolve(parent) \in ignore_set

\* upload_dir.rglob('*'): the files of the tree and the directories above
\* them, below upload_dir.
rglob(tree) ==
    [files |-> tree,
     dirs |-> {d \in UNION {parents(f) : f \in tree} : Len(d) > Len(upload_dir)}]

relative_to(path) == SubSeq(path, Len(upload_dir) + 1, Len(path))

\* file_service.py 69-84, copy_to_temp: the staging tree after the wipe and
\* the copy loop: each entry that is not ignored, at its relative path.
copy_to_temp(tree, ignore_patterns) ==
    LET ignore_set == resolved_ignore_set(ignore_patterns)
        found == rglob(tree)
    IN [files |-> {relative_to(f) : f \in {g \in found.files : ~should_ignore(g, ignore_set)}},
        dirs |-> {relative_to(d) : d \in {g \in found.dirs : ~should_ignore(g, ignore_set)}}]

\* ev holds the upload tree and the ignore list of the call.
InitCopy ==
    /\ db = <<>>
    /\ total_tasks = [u \in Registered |-> 0]
    /\ msglog = <<>>
    /\ clock = 0
    /\ nextJob = 1
    /\ req = [t \in TaskIds |-> IdleReq]
    /\ can = [t \in TaskIds |-> IdleCan]
    /\ poll = IdlePoll
    /\ slurm = NoSlurm
    /\ svc = NoService
    /\ \E tree \in UploadTrees, ignore \in IgnoreLists :
          ev = Event("copy_to_temp", 0, 0, {[tree |-> tree, ignore |-> ignore]})

\* The call returns; ev holds its arguments and the staging tree it left.
CopyCall ==
    /\ ev.op = "copy_to_temp"
    /\ \E call \in ev.effects :
          ev' = Event("staged", 0, 0,
                      {[tree |-> call.tree, ignore |-> call.ignore,
                        staged |-> copy_to_temp(call.tree, call.ignore)]})
    /\ UNCHANGED <<db, total_tasks, msglog, clock, nextJob, req, can, poll, slurm, svc>>

NextCopy == CopyCall

SpecCopy == InitCopy /\ [][NextCopy]_vars

\* ---- services/file_service.py: the result archive on its own ----

\* The work directory of task T, resolved.
work_path == <<"/", "work">>

\* The Slurm artifacts of the task, under <work_path>/.slurm.
SlurmSuffixes == <<"T.out", "T.err", "T.sh">>

SlurmArtifacts == {work_path \o <<".slurm", SlurmSuffixes[i]>> : i \in 1..3}

\* The files the job may have left under the work directory.
WorkFiles ==
    {work_path \o <<"train.log">>, work_path \o <<"out", "a">>,
     work_path \o <<"out", "sub", "b">>}

\* A file outside the work directory, which always exists.
OutsideFile == <<"/", "secret">>

\* The disks tried: any of the artifacts and of the work files.
Disks == {artifacts \cup files \cup {OutsideFile} :
             artifacts \in SUBSET SlurmArtifacts, files \in SUBSET WorkFiles}

\* The paths a task may list in logs and results: a file, a directory, a
\* file of that directory, a path that does not exist, a path that leaves
\* the work directory.
ListedPaths == {<<"train.log">>, <<"out">>, <<"out", "a">>, <<"missing">>, <<"..", "secret">>}

PathLists == UNION {[1..n -> ListedPaths] : n \in 0..MaxPaths}

is_file(disk, path) == normalise(path) \in disk

is_dir(disk, path) == \E f \in disk : normalise(path) \in parents(f)

\* full_path.rglob('*') filtered by is_file: the files below a directory.
files_below(disk, path) == {f \in disk : normalise(path) \in parents(f)}

\* fp.relative_to(work_path)
relative_to_work(path) == SubSeq(path, Len(work_path) + 1, Len(path))

\* The entry names zf.write adds for one listed path (file_service.py
\* 220-229): the path as listed for a file, the relative path of each file
\* below it for a directory, nothing for a path that does not exist.
entries_of(disk, rel_path) ==
    LET full_path == work_path \o rel_path
    IN IF is_file(disk, full_path) THEN {rel_path}
       ELSE IF is_dir(disk, full_path)
            THEN {relative_to_work(fp) : fp \in files_below(disk, full_path)}
       ELSE {}

\* The names of the archive's entries.
ArcNames ==
    {<<"slurm", SlurmSuffixes[i]>> : i \in 1..3} \cup ListedPaths
       \cup {relative_to_work(f) : f \in WorkFiles}

\* file_service.py 206-229, create_local_result_archive (the Remote Server's
\* create_result_archive is the same loop): how many entries of each name
\* the zip file holds after the writes, fetch_paths being the concatenation
\* of the two lists.
create_local_result_archive(disk, logs_paths, results_paths) ==
    LET fetch_paths == logs_paths \o results_paths
    IN [name \in ArcNames |->
          Cardinality({i \in 1..3 : /\ name = <<"slurm", SlurmSuffixes[i]>>
                                    /\ work_path \o <<".slurm", SlurmSuffixes[i]>> \in disk})
          + Cardinality({i \in 1..Len(fetch_paths) : name \in entries_of(disk, fetch_paths[i])})]

\* ev holds the disk and the two lists of the task.
InitArchive ==
    /\ db = <<>>
    /\ total_tasks = [u \in Registered |-> 0]
    /\ msglog = <<>>
    /\ clock = 0
    /\ nextJob = 1
    /\ req = [t \in TaskIds |-> IdleReq]
    /\ can = [t \in TaskIds |-> IdleCan]
    /\ poll = IdlePoll
    /\ slurm = NoSlurm
    /\ svc = NoService
    /\ \E disk \in Disks, logs_paths \in PathLists, results_paths \in PathLists :
          ev = Event("create_archive", 0, 0,
                     {[disk |-> disk, logs_paths |-> logs_paths,
                       results_paths |-> results_paths]})

\* The call returns; ev holds its arguments and the archive's entries.
ArchiveCall ==
    /\ ev.op = "create_archive"
    /\ \E call \in ev.effects :
          ev' = Event("archived", 0, 0,
                      {[disk |-> call.disk, logs_paths |-> call.logs_paths,
                        results_paths |-> call.results_paths,
                        archive |-> create_local_result_archive(
                                       call.disk, call.logs_paths, call.results_paths)]})
    /\ UNCHANGED <<db, total_tasks, msglog, clock, nextJob, req, can, poll, slurm, svc>>

NextArchive == ArchiveCall

SpecArchive == InitArchive /\ [][NextArchive]_vars

\* ---- the poll loop against a job that runs its course ----

\* The job of task 1 was submitted and is running; Slurm will move it
\* through further states until it settles.
InitSettle ==
    /\ db = <<[NewRow("alice", "local") EXCEPT !.status = "running",
                                               !.slurm_job_id = Some(1),
                                               !.started_at = Some(0),
                                               !.updated_at = Some(0)]>>
    /\ total_tasks = [u \in Registered |-> 1]
    /\ msglog = <<[msg_type |-> "task_submit", task_id |-> 1]>>
    /\ clock = 0
    /\ nextJob = 2
    /\ req = [t \in TaskIds |-> [pc |-> "done", job |-> None]]
    /\ can = [t \in TaskIds |-> IdleCan]
    /\ poll = IdlePoll
    /\ ev = Event("submit", 1, 200, {"sbatch"})
    /\ slurm = [j \in {1} |-> [state |-> <<"RUNNING">>, exit_code |-> None, final |-> FALSE]]
    /\ svc = NoService

\* Slurm moves the job to another state (suspended, completing, requeued as
\* pending, ...), which is not its last.
SlurmMoves(j, state) ==
    /\ ~slurm[j].final
    /\ slurm' = [slurm EXCEPT ![j].state = state]
    /\ UNCHANGED <<db, total_tasks, msglog, clock, nextJob, req, can, poll, ev, svc>>

\* The job ends: Slurm reports a state mapped to completed, failed or
\* canceled, with an exit code, and reports it from now on.
SlurmSettles(j, state, exit_code) ==
    /\ ~slurm[j].final
    /\ map_slurm_state(state) \in Terminal
    /\ slurm' = [slurm EXCEPT ![j] = [state |-> state, exit_code |-> exit_code, final |-> TRUE]]
    /\ UNCHANGED <<db, total_tasks, msglog, clock, nextJob, req, can, poll, ev, svc>>

\* polling_service.py 81-93 with get_slurm_job_status (slurm.py 171-248)
\* answering what Slurm holds for the job of the row polled.
PollObserves ==
    /\ poll.pc = "query"
    /\ LET job == slurm[poll.row.slurm_job_id[1]]
       IN PollResult([state |-> job.state, exit_code |-> job.exit_code])

NextSettle ==
    \/ \E state \in SlurmStates : SlurmMoves(1, state)
    \/ \E state \in SlurmStates : \E exit_code \in {Some(0), Some(1)} :
          SlurmSettles(1, state, exit_code)
    \/ PollQuery
    \/ PollNoResult
    \/ PollObserves

\* The poll thread wakes up every POLL_INTERVAL (polling_service.py 75), and
\* status queries succeed again and again.
SpecSettle ==
    /\ InitSettle /\ [][NextSettle]_vars
    /\ WF_vars(PollQuery) /\ SF_vars(PollObserves)


\* ---- utils/slurm.py: get_slurm_job_status on its own ----

\* A line of `sacct --noheader --parsable2` output is the sequence of its
\* "|"-separated fields: JobID, State, ExitCode.  The ExitCode field is
\* <<code, signal>> for "<code>:<signal>" and <<>> when it holds no colon.
\* <<"7">> is a line without a separator, <<>> an empty line.
SacctIds == {"7", "7.batch", "7.extern"}
ExitFields == {<<0, 0>>, <<1, 0>>, <<>>}
SacctLines ==
    {<<id, state, exit>> : id \in SacctIds, state \in {"RUNNING", "FAILED"},
                           exit \in ExitFields}
      \cup {<<"7">>, <<>>}

SacctOutputs == UNION {[1..n -> SacctLines] : n \in 0..MaxRows}

\* What a subprocess.run of sacct or squeue comes to: the exception it
\* raises ("" for none), or else an exit status with the captured stdout.
RunRaises == {"", "TimeoutExpired", "FileNotFoundError"}
SacctRuns == [raises : RunRaises, returncode : {0, 1}, stdout : SacctOutputs]

\* squeue -h -o "%i|%T|%N|%S" prints one line, split on "|".
SqueueOutputs == {<<>>, <<"7">>, <<"7", "PENDING">>, <<"7", "RUNNING">>}
SqueueRuns == [raises : RunRaises, returncode : {0, 1}, stdout : SqueueOutputs]

\* ".batch" in line or ".extern" in line
is_substep(line) == line # <<>> /\ line[1] \in {"7.batch", "7.extern"}

\* slurm.py 219-237: the first line that is neither empty nor a sub-step
\* and has at least two fields, as (state, exit_code); None if there is none.
RECURSIVE parse_sacct(_)
parse_sacct(lines) ==
    IF lines = <<>> THEN None
    ELSE LET line == Head(lines)
         IN IF line = <<>> \/ is_substep(line) THEN parse_sacct(Tail(lines))
            ELSE IF Len(line) >= 2
                 THEN Some([state |-> line[2],
                            exit_code |-> IF Len(line) >= 3 /\ line[3] # <<>>
                                          THEN Some(line[3][1]) ELSE None])
                 ELSE parse_sacct(Tail(lines))

\* slurm.py 201-213
parse_squeue(run) ==
    IF run.returncode = 0 /\ run.stdout # <<>> /\ Len(run.stdout) >= 2
    THEN Some([state |-> run.stdout[2], exit_code |-> None])
    ELSE None

\* get_slurm_job_status: the SlurmJobInfo (or None) it returns, and whether
\* it ran squeue.  squeue runs only when sacct exits with a non-zero status;
\* an exception of either run is caught and gives None.
get_slurm_job_status(sacct, squeue) ==
    IF sacct.raises # ""
    THEN [info |-> None, squeue_ran |-> FALSE]
    ELSE IF sacct.returncode # 0
         THEN [info |-> IF squeue.raises # "" THEN None
                        ELSE parse_squeue(squeue),
               squeue_ran |-> TRUE]
         ELSE [info |-> parse_sacct(sacct.stdout), squeue_ran |-> FALSE]

InitQuery ==
    /\ db = <<>>
    /\ total_tasks = [u \in Registered |-> 0]
    /\ msglog = <<>>
    /\ clock = 0
    /\ nextJob = 1
    /\ req = [t \in TaskIds |-> IdleReq]
    /\ can = [t \in TaskIds |-> IdleCan]
    /\ poll = IdlePoll
    /\ slurm = NoSlurm
    /\ svc = NoService
    /\ \E sacct \in SacctRuns, squeue \in SqueueRuns :
          ev = Event("get_slurm_job_status", 0, 0, {<<sacct, squeue>>})

\* The call returns; ev holds the two runs together with the outcome.
QueryCall ==
    /\ ev.op = "get_slurm_job_status"
    /\ \E a \in ev.effects :
          ev' = Event("returned", 0, 0,
                      {<<a[1], a[2], get_slurm_job_status(a[1], a[2])>>})
    /\ UNCHANGED <<db, total_tasks, msglog, clock, nextJob, req, can, poll, slurm, svc>>

NextQuery == QueryCall

SpecQuery == InitQuery /\ [][NextQuery]_vars


\* ---- utils/slurm.py: submit_slurm_job, and the local branch of submit ----

\* sbatch's stdout is a sequence of pieces: the text "Submitted batch job ",
\* a maximal run of digits (a job number), or other text.
Marker == [kind |-> "Submitted batch job ", n |-> 0]
OtherText == [kind |-> "text", n |-> 0]
Digits(n) == [kind |-> "digits", n |-> n]
SbatchPieces == {Marker, OtherText} \cup {Digits(n) : n \in 1..2}

SbatchOutputs ==
    {out \in UNION {[1..n -> SbatchPieces] : n \in 0..MaxOut} :
        \A i \in 1..(Len(out) - 1) :
            ~(out[i].kind = "digits" /\ out[i + 1].kind = "digits")}

\* subprocess.run(["sbatch", script_path], timeout=30): the exception it
\* raises ("" for none), or else the exit status with the captured stdout.
SbatchRaises == {"", "TimeoutExpired", "FileNotFoundError", "OSError"}
SbatchRuns == [raises : SbatchRaises, returncode : {0, 1}, stdout : SbatchOutputs]

\* re.search(r"Submitted batch job (\d+)", stdout): the positions where the
\* pattern matches.
Matches(stdout) ==
    {i \in 1..(Len(stdout) - 1) : stdout[i] = Marker /\ stdout[i + 1].kind = "digits"}

Leftmost(S) == CHOOSE i \in S : \A j \in S : i <= j

\* submit_slurm_job accepting sbatch's output whatever its exit status.
submit_slurm_job_IgnoresExit(run) ==
    IF run.raises = "TimeoutExpired" THEN [success |-> FALSE, job_id |-> None, error |-> "timeout"]
    ELSE IF run.raises = "FileNotFoundError"
    THEN [success |-> FALSE, job_id |-> None, error |-> "sbatch not found"]
    ELSE IF run.raises # "" THEN [success |-> FALSE, job_id |-> None, error |-> run.raises]
    ELSE IF Matches(run.stdout) # {}
         THEN [success |-> TRUE,
               job_id |-> Some(run.stdout[Leftmost(Matches(run.stdout)) + 1].n),
               error |-> ""]
         ELSE [success |-> FALSE, job_id |-> None, error |-> "unparseable"]

\* submit_slurm_job: (success, job id or error message).
submit_slurm_job(run) ==
    IF run.raises = "TimeoutExpired" THEN [success |-> FALSE, job_id |-> None, error |-> "timeout"]
    ELSE IF run.raises = "FileNotFoundError"
    THEN [success |-> FALSE, job_id |-> None, error |-> "sbatch not found"]
    ELSE IF run.raises # "" THEN [success |-> FALSE, job_id |-> None, error |-> run.raises]
    ELSE IF run.returncode = 0
    THEN IF Matches(run.stdout) # {}
         THEN [success |-> TRUE,
               job_id |-> Some(run.stdout[Leftmost(Matches(run.stdout)) + 1].n),
               error |-> ""]
         ELSE [success |-> FALSE, job_id |-> None, error |-> "unparseable"]
    ELSE [success |-> FALSE, job_id |-> None, error |-> "stderr"]

\* A local submit that has inserted its pending row and is about to run
\* sbatch; slurm holds what that run will come to.
InitSbatch ==
    /\ db = <<NewRow("alice", "local")>>
    /\ total_tasks = [u \in Registered |-> 1]
    /\ msglog = <<[msg_type |-> "task_submit", task_id |-> 1]>>
    /\ clock = 0
    /\ nextJob = 1
    /\ req = [t \in TaskIds |-> [pc |-> "sbatch", job |-> None]]
    /\ can = [t \in TaskIds |-> IdleCan]
    /\ poll = IdlePoll
    /\ \E run \in SbatchRuns : slurm = [sbatch |-> run]
    /\ svc = NoService
    /\ ev = Event("submit", 1, 0, {})

\* routes.py 61-78 with LocalSlurmService.submit_job (local_slurm_service.py
\* 88-95) passing on what submit_slurm_job returns.
SubmitSbatch(t) ==
    LET r == submit_slurm_job(slurm.sbatch) IN
    /\ Exists(t) /\ req[t].pc = "sbatch"
    /\ clock < MaxClock
    /\ clock' = clock + 1
    /\ IF r.success
       THEN /\ db' = [db EXCEPT ![t] = update_task_status(@, SubmitSnap(t), "running",
                                                         r.job_id, None, clock')]
            /\ ev' = Event("submit", t, 200, {"sbatch"})
       ELSE /\ db' = [db EXCEPT ![t] = update_task_status(@, SubmitSnap(t), "failed",
                                                         None, None, clock')]
            /\ ev' = Event("submit", t, 500, {"sbatch", r.error})
    /\ Advance(t, "done")
    /\ UNCHANGED <<total_tasks, msglog, nextJob, can, poll, slurm, svc>>

NextSbatch == \E t \in TaskIds : SubmitSbatch(t)

SpecSbatch == InitSbatch /\ [][NextSbatch]_vars


\* ---- utils/slurm.py: generate_slurm_script against the stored command ----

\* A command string is a sequence of pieces: simple commands and the text
\* " && " between them.  true exits 0 and false exits 1, as do echo and cd.
AndAnd == " && "
Atoms == {"true", "false"}
Commands == {<<a>> : a \in Atoms} \cup {<<a, AndAnd, b>> : a \in Atoms, b \in Atoms}
CommandLists == UNION {[1..n -> Commands] : n \in 0..MaxCmds}

exit_status(atom) == IF atom = "false" THEN 1 ELSE 0

\* task_service.py 46: ' && '.join(commands)
RECURSIVE join(_)
join(commands) ==
    IF commands = <<>> THEN <<>>
    ELSE IF Len(commands) = 1 THEN commands[1]
    ELSE commands[1] \o <<AndAnd>> \o join(Tail(commands))

\* local_slurm_service.py 64: command_str.split(' && ')
RECURSIVE split_and(_)
split_and(command_str) ==
    IF \A i \in 1..Len(command_str) : command_str[i] # AndAnd THEN <<command_str>>
    ELSE LET i == CHOOSE i \in 1..Len(command_str) :
                      /\ command_str[i] = AndAnd
                      /\ \A j \in 1..(i - 1) : command_str[j] # AndAnd
         IN <<SubSeq(command_str, 1, i - 1)>>
              \o split_and(SubSeq(command_str, i + 1, Len(command_str)))

\* bash running the list a && b && ...: the simple commands it ran, in
\* order, and the status it leaves in $?.
RECURSIVE and_list(_, _)
and_list(str, ran) ==
    IF str = <<>> THEN [ran |-> ran, status |-> 0]
    ELSE LET status == exit_status(Head(str))
         IN IF status # 0 \/ Len(str) = 1
            THEN [ran |-> Append(ran, Head(str)), status |-> status]
            ELSE and_list(SubSeq(str, 3, Len(str)), Append(ran, Head(str)))

\* slurm.py 79-125: the lines of the script that bash executes: the echo
\* lines of the header and `cd workdir`, one line per command, an empty
\* line, and the three echo lines of the trailer, the last one printing $?.
generate_slurm_script(commands) ==
    <<(<<"echo">>), (<<"cd">>)>> \o commands
       \o <<(<<>>), (<<"echo">>), (<<"echo">>), (<<"echo $?">>)>>

\* bash running a script without `set -e`: every line in turn, whatever the
\* status of the line before; reported is the value of $? that the last
\* line prints.
RECURSIVE bash(_, _, _, _)
bash(lines, ran, status, reported) ==
    IF lines = <<>> THEN [ran |-> ran, status |-> status, reported |-> reported]
    ELSE IF Head(lines) = <<>> THEN bash(Tail(lines), ran, status, reported)
    ELSE IF Head(lines) = <<"echo $?">>
         THEN bash(Tail(lines), Append(ran, "echo"), 0, Some(status))
    ELSE LET r == and_list(Head(lines), ran)
         IN bash(Tail(lines), r.ran, r.status, reported)

InitScript ==
    /\ db = <<>>
    /\ total_tasks = [u \in Registered |-> 0]
    /\ msglog = <<>>
    /\ clock = 0
    /\ nextJob = 1
    /\ req = [t \in TaskIds |-> IdleReq]
    /\ can = [t \in TaskIds |-> IdleCan]
    /\ poll = IdlePoll
    /\ slurm = NoSlurm
    /\ svc = NoService
    /\ \E commands \in CommandLists : ev = Event("commands", 0, 0, {commands})

\* The submit stores the joined string and the batch job runs the script;
\* ev holds the command list with the stored string, what the lists split
\* from it are, and what the script and the stored string do when run.
ScriptCall ==
    /\ ev.op = "commands"
    /\ \E commands \in ev.effects :
          ev' = Event("ran", 0, 0,
                      {[commands |-> commands,
                        command_str |-> join(commands),
                        split |-> split_and(join(commands)),
                        script |-> bash(generate_slurm_script(commands), <<>>, 0, None),
                        chain |-> and_list(join(commands), <<>>)]})
    /\ UNCHANGED <<db, total_tasks, msglog, clock, nextJob, req, can, poll, slurm, svc>>

NextScript == ScriptCall

SpecScript == InitScript /\ [][NextScript]_vars


\* ---- services/polling_service.py: PollingService.start, stop, _poll_loop ----

\* svc.polling_thread is 0 for None, or the index of a Thread in svc.threads.
\* A Thread is "new" (created, not started), in its loop at the `while` test
\* ("loop"), inside an iteration, in stop_event.wait ("wait"), or "exited".
\* svc.call[c] is where caller c is inside start() or stop(), and the call
\* it returned from last.
ThreadIds == 1..MaxThreads

is_alive(th) == svc.threads[th] \in {"loop", "iteration", "wait"}

\* polling_service.py 38-40
is_running == svc.polling_thread # 0 /\ is_alive(svc.polling_thread)

Called(c, pc, last) == [svc.call EXCEPT ![c] = [pc |-> pc, last |-> last]]

Service(callers) ==
    [polling_thread |-> 0, stop_event |-> FALSE, threads |-> <<>>,
     call |-> [c \in callers |-> [pc |-> "idle", last |-> "none"]]]

InitService(callers) ==
    /\ db = <<>>
    /\ total_tasks = [u \in Registered |-> 0]
    /\ msglog = <<>>
    /\ clock = 0
    /\ nextJob = 1
    /\ req = [t \in TaskIds |-> IdleReq]
    /\ can = [t \in TaskIds |-> IdleCan]
    /\ poll = IdlePoll
    /\ slurm = NoSlurm
    /\ svc = Service(callers)
    /\ ev = Event("none", 0, 0, {})

Frame == UNCHANGED <<db, total_tasks, msglog, clock, nextJob, req, can, poll, slurm>>

\* start() creating a thread without looking at the one it holds.
StartCheck_NoAliveTest(c) ==
    /\ svc.call[c].pc = "idle"
    /\ svc' = [svc EXCEPT !.call = Called(c, "clear", svc.call[c].last)]
    /\ ev' = Event("start", svc.polling_thread, 0, {})
    /\ Frame

\* polling_service.py 25: `if self.polling_thread is None or not
\* self.polling_thread.is_alive()`; when false, start() returns.
StartCheck(c) ==
    /\ svc.call[c].pc = "idle"
    /\ IF svc.polling_thread = 0 \/ ~is_alive(svc.polling_thread)
       THEN svc' = [svc EXCEPT !.call = Called(c, "clear", svc.call[c].last)]
       ELSE svc' = [svc EXCEPT !.call = Called(c, "idle", "start")]
    /\ ev' = Event("start", svc.polling_thread, 0, {})
    /\ Frame

\* polling_service.py 26: self.stop_event.clear()
StartClear(c) ==
    /\ svc.call[c].pc = "clear"
    /\ svc' = [svc EXCEPT !.stop_event = FALSE, !.call = Called(c, "create", svc.call[c].last)]
    /\ ev' = Event("start", svc.polling_thread, 0, {"clear"})
    /\ Frame

\* polling_service.py 27: self.polling_thread = threading.Thread(...)
StartCreate(c) ==
    /\ svc.call[c].pc = "create"
    /\ Len(svc.threads) < MaxThreads
    /\ svc' = [svc EXCEPT !.threads = Append(@, "new"),
                          !.polling_thread = Len(svc.threads) + 1,
                          !.call = Called(c, "start", svc.call[c].last)]
    /\ ev' = Event("start", Len(svc.threads) + 1, 0, {"Thread"})
    /\ Frame

\* polling_service.py 28: self.polling_thread.start(), on the thread the
\* attribute holds now; starting a thread a second time raises RuntimeError.
StartThread(c) ==
    /\ svc.call[c].pc = "start"
    /\ LET th == svc.polling_thread
       IN IF svc.threads[th] = "new"
          THEN /\ svc' = [svc EXCEPT !.threads[th] = "loop",
                                     !.call = Called(c, "idle", "start")]
               /\ ev' = Event("start", th, 0, {"Thread.start"})
          ELSE /\ svc' = [svc EXCEPT !.call = Called(c, "idle", "RuntimeError")]
               /\ ev' = Event("start", th, 0, {"RuntimeError"})
    /\ Frame

\* polling_service.py 33-34: self.stop_event.set(), then the test of
\* self.polling_thread.
StopSet(c) ==
    /\ svc.call[c].pc = "idle"
    /\ svc' = [svc EXCEPT !.stop_event = TRUE,
                          !.call = IF svc.polling_thread # 0
                                   THEN Called(c, "join", svc.call[c].last)
                                   ELSE Called(c, "idle", "stop")]
    /\ ev' = Event("stop", svc.polling_thread, 0, {"set"})
    /\ Frame

\* polling_service.py 35: self.polling_thread.join(timeout=5) returns: the
\* thread has exited, or five seconds passed with the thread inside an
\* iteration; joining a thread that was not started raises RuntimeError.
StopJoin(c, timed_out) ==
    /\ svc.call[c].pc = "join"
    /\ LET th == svc.polling_thread
       IN /\ IF timed_out THEN svc.threads[th] = "iteration"
             ELSE svc.threads[th] \in {"exited", "new"}
          /\ svc' = [svc EXCEPT !.call = Called(c, "idle",
                                               IF svc.threads[th] = "new"
                                               THEN "RuntimeError" ELSE "stop")]
          /\ ev' = Event("stop", th, 0, IF timed_out THEN {"join_timeout"} ELSE {"join"})
    /\ Frame

\* polling_service.py 46: `while not self.stop_event.is_set()`
LoopTest(th) ==
    /\ th \in DOMAIN svc.threads /\ svc.threads[th] = "loop"
    /\ svc' = [svc EXCEPT !.threads[th] = IF svc.stop_event THEN "exited" ELSE "iteration"]
    /\ ev' = Event("_poll_loop", th, 0, IF svc.stop_event THEN {"exit"} ELSE {"iterate"})
    /\ Frame

\* polling_service.py 47-74: one iteration, from the query to session.close().
Iteration(th) ==
    /\ th \in DOMAIN svc.threads /\ svc.threads[th] = "iteration"
    /\ svc' = [svc EXCEPT !.threads[th] = "wait"]
    /\ ev' = Event("_poll_loop", th, 0, {"iteration"})
    /\ Frame

\* polling_service.py 77: self.stop_event.wait(POLL_INTERVAL) returns, at
\* once when the event is set and after the interval otherwise.
Wait(th) ==
    /\ th \in DOMAIN svc.threads /\ svc.threads[th] = "wait"
    /\ svc' = [svc EXCEPT !.threads[th] = "loop"]
    /\ ev' = Event("_poll_loop", th, 0, {"wait"})
    /\ Frame

Threads == \E th \in ThreadIds : LoopTest(th) \/ Iteration(th) \/ Wait(th)

Calls(c) ==
    \/ StartCheck(c) \/ StartClear(c) \/ StartCreate(c) \/ StartThread(c)
    \/ StopSet(c)
    \/ \E timed_out \in BOOLEAN : StopJoin(c, timed_out)

ThreadsRun ==
    \A th \in ThreadIds :
        WF_vars(LoopTest(th)) /\ WF_vars(Iteration(th)) /\ WF_vars(Wait(th))

\* start() and stop() called one after the other, as run_app does (app.py
\* 45-61), in any order and number.
MainCaller == {"main"}

InitMain == InitService(MainCaller)

NextMain == Threads \/ \E c \in MainCaller : Calls(c)

SpecMain == InitMain /\ [][NextMain]_vars /\ ThreadsRun

\* start() and stop() called from two threads of the process at once.
RaceCallers == {"main", "other"}

InitRace == InitService(RaceCallers)

NextRace == Threads \/ \E c \in RaceCallers : Calls(c)

SpecRace == InitRace /\ [][NextRace]_vars /\ ThreadsRun


\* ---- routes.py: request.get_json() in the POST handlers ----

\* A request whose body is no JSON object: text that does not parse under a
\* JSON content type ("malformed"), or no JSON body at all ("absent": an
\* empty body, or a content type other than application/json).
BodyKinds == {"malformed", "absent"}

\* request.get_json(): malformed JSON raises BadRequest; without a JSON
\* body it returns None, or raises UnsupportedMediaType (Flask 2.1 and later).
get_json(kind) ==
    IF kind = "malformed" THEN {"BadRequest"} ELSE {"None", "UnsupportedMediaType"}

PostHandlers == {"submit", "local-run", "attach"}

\* routes.py 30-33 and 126-128 (submit), 139-141 and 160-162 (local-run),
\* 173-174 and 190-192 (attach).  An exception of get_json is caught by the
\* handler's `except Exception`.  On None, local-run answers 400 by its
\* `not data` test, while submit evaluates `'username' not in None`
\* (TypeError) and attach `None.get` (AttributeError).
BadBody(handler, kind, data) ==
    /\ data \in get_json(kind)
    /\ ev' = Event(handler, 0,
                   IF data = "None" /\ handler = "local-run" THEN 400 ELSE 500,
                   {kind, data})
    /\ UNCHANGED <<db, total_tasks, msglog, clock, nextJob, req, can, poll, slurm, svc>>

\* The HTTP frontend serving arbitrary clients, requests without a JSON
\* object as body included.
NextHttp ==
    \/ NextApi
    \/ \E handler \in PostHandlers : \E kind \in BodyKinds :
          \E data \in {"BadRequest", "None", "UnsupportedMediaType"} :
             BadBody(handler, kind, data)

SpecHttp == Init /\ [][NextHttp]_vars

\* ======================= properties =======================

CancelCommitted(t) ==
    \E i \in 1..Len(msglog) : msglog[i] = [msg_type |-> "task_cancel", task_id |-> t]

\* A step in which a handler called TaskService.update_task_status (submit,
\* attach and poll steps; cancel goes through TaskService.cancel_task).
UpdateStatusStep == ev'.op \in {"submit", "attach", "poll"}

\* C1: once a row's status is completed, failed or canceled, a later
\* update_status call leaves the status as it is.
C1_TerminalStatusKept ==
    [][\A t \in 1..Len(db) :
          (db[t].status \in Terminal /\ UpdateStatusStep) => db'[t].status = db[t].status]_vars

\* C2: after a cancel request committed canceled, no step of the poll loop
\* changes the row's status.
C2_PollKeepsCanceled ==
    [][\A t \in 1..Len(db) :
          (CancelCommitted(t) /\ db[t].status = "canceled" /\ ev'.op = "poll")
             => db'[t].status = "canceled"]_vars

\* C3: a cancel committed while the submit handler is still in flight stays:
\* the handler's final update does not change the status.
C3_SubmitKeepsCanceled ==
    [][\A t \in 1..Len(db) :
          (CancelCommitted(t) /\ db[t].status = "canceled"
             /\ req[t].pc \in {"sbatch", "staging", "rsync", "remote_submit"}
             /\ ev'.op = "submit" /\ ev'.task = t)
             => db'[t].status = "canceled"]_vars

\* Only the poll loop writes completed, or failed together with an exit code.
ReconcilerClosed(row) ==
    row.status = "completed" \/ (row.status = "failed" /\ row.exit_code # None)

\* C4: when the reconciler closed the row after a cancel request passed its
\* terminal check, that request's cancel_task leaves status, exit_code and
\* completed_at as the reconciler committed them.
C4_CancelAfterCloseIsNoOp ==
    [][\A t \in 1..Len(db) :
          (can[t].pc = "stamped" /\ ReconcilerClosed(db[t])
             /\ ev'.op = "cancel" /\ ev'.task = t /\ ev'.code = 200)
             => /\ db'[t].status = db[t].status
                /\ db'[t].exit_code = db[t].exit_code
                /\ db'[t].completed_at = db[t].completed_at]_vars

\* C5: every row's status is one of the five unified states.
C5_StatusInUnified == \A t \in 1..Len(db) : db[t].status \in Unified

\* C6: a poll of a pending or running row that derives the state unknown
\* changes no field of the row, so later iterations still select it.
C6_UnknownPollIsNoOp ==
    [][\A job_info \in JobInfos :
          (/\ poll.pc = "query"
           /\ poll.row.status \in {"pending", "running"}
           /\ PolledStatus(poll.row, job_info) = "unknown"
           /\ PollResult(job_info))
             => db' = db]_vars

\* The step in which the operation that ran sbatch for task t finishes: the
\* submit handler answers (local sbatch or remote submit done), or the
\* local-run CLI returns after its sbatch.
SbatchOperationEnds(t) ==
    /\ req[t].pc # "done" /\ req'[t].pc = "done"
    /\ \/ "sbatch" \in ev'.effects
       \/ "remote_submit" \in ev'.effects
       \/ req[t].pc = "cli_attach"

\* C7: once the operation that invoked sbatch has finished, the row has a
\* job id and is not pending, or it is failed.
C7_SbatchSettlesRow ==
    [][\A t \in 1..Len(db) :
          SbatchOperationEnds(t)
             => \/ db'[t].slurm_job_id # None /\ db'[t].status # "pending"
                \/ db'[t].status = "failed"]_vars

\* C8: a submit request that inserted a row answers with the row running
\* with a job id, or failed.
C8_SubmitNeverLeavesPending ==
    [][\A t \in 1..Len(db') :
          (ev'.op = "submit" /\ ev'.task = t /\ ev'.code # 0)
             => \/ db'[t].status = "running" /\ db'[t].slurm_job_id # None
                \/ db'[t].status = "failed"]_vars

\* C9: a submit answered 400 leaves tasks, users and message log unchanged.
C9_Submit400WritesNothing ==
    [][(ev'.op = "submit" /\ ev'.code = 400)
          => UNCHANGED <<db, total_tasks, msglog>>]_vars

\* A status, logs, fetch or cancel request for task t with parameter username.
OwnerCheckedRequest(t, username) ==
    \/ ev'.op = "status" /\ StatusRequest(t, username)
    \/ ev'.op = "logs" /\ \E ok \in BOOLEAN : LogsRequest(t, username, ok)
    \/ ev'.op = "fetch" /\ \E ok \in BOOLEAN : FetchRequest(t, username, ok)
    \/ ev'.op = "cancel" /\ CancelCheck(t, username)

\* The request is refused: 403, nothing written, no external call, and no
\* cancel left in flight.
Refused == ev'.code = 403 /\ ev'.effects = {} /\ UNCHANGED <<db, can, msglog>>

\* C10 as claimed: any supplied username that differs from the owner is refused.
C10_AnyOtherUsernameRefused ==
    [][Refused \/ \A t \in 1..Len(db) : \A u \in UserParams \ {NoUser} :
          ~(u # db[t].username /\ ev'.task = t /\ OwnerCheckedRequest(t, u))]_vars

\* C10 amended: a non-empty username that differs from the owner is refused
\* by status, logs, fetch and cancel.
C10_OtherUsernameRefused ==
    [][Refused \/ \A t \in 1..Len(db) : \A u \in UserParams :
          ~(Truthy(u) /\ u # db[t].username /\ ev'.task = t /\ OwnerCheckedRequest(t, u))]_vars

\* C10 witness: a cancel by another user was refused for a running task
\* with a job id, for which an owner's cancel would have run scancel.
C10_Witness ==
    /\ ev.op = "cancel" /\ ev.code = 403 /\ Exists(ev.task)
    /\ db[ev.task].status = "running" /\ db[ev.task].slurm_job_id # None

\* C11: a cancel request that passed the owner and terminal checks goes on
\* to commit for every outcome of the Slurm cancellation, answers 200, and
\* the commit stores status canceled with completed_at set.
C11_CancelSucceedsWhateverSlurmSays ==
    [][\A t \in 1..Len(db) :
          /\ \A o \in AllCancelOutcomes : CancelSlurm(t, o) => can'[t].pc = "stamped"
          /\ (can[t].pc = "stamped" /\ ev'.op = "cancel" /\ ev'.task = t)
                => /\ ev'.code = 200
                   /\ db'[t].status = "canceled"
                   /\ db'[t].completed_at # None]_vars

\* C11 witness: a cancel answered 200 after its scancel or remote cancel
\* failed, and the row is canceled with completed_at set.
C11_Witness ==
    /\ ev.op = "cancel" /\ ev.code = 200 /\ "cancel_failed" \in ev.effects
    /\ db[ev.task].status = "canceled" /\ db[ev.task].completed_at # None

C13_OneTerminalTransition ==
    [][\A t \in 1..Len(db) :
          db[t].completed_at # None
             => /\ db'[t].completed_at = db[t].completed_at
                /\ db'[t].status \in Terminal => db'[t].status = db[t].status]_vars

\* C14: every row whose status is completed, failed or canceled has a
\* non-null completed_at.
C14_TerminalHasCompletedAt ==
    \A t \in 1..Len(db) : db[t].status \in Terminal => db[t].completed_at # None

\* C15: every row whose status is or has been running has a non-null
\* started_at: a running row has one, and a started_at once set stays set.
C15_EverRunningHasStartedAt ==
    [][\A t \in 1..Len(db') :
          (db'[t].status = "running" \/ (t <= Len(db) /\ db[t].started_at # None))
             => db'[t].started_at # None]_vars

\* C15 witness: a poll that observed RUNNING moved a row back to running,
\* and the row has its started_at.
C15_Witness ==
    /\ ev.op = "poll" /\ Exists(ev.task)
    /\ db[ev.task].status = "running" /\ db[ev.task].started_at # None
    /\ db[ev.task].updated_at # db[ev.task].started_at

\* C16: started_at is written at most once per task: once set, no later
\* operation changes its value.
C16_StartedAtWrittenOnce ==
    [][\A t \in 1..Len(db) :
          db[t].started_at # None => db'[t].started_at = db[t].started_at]_vars

\* C17: a second update_status call with the arguments of the call before
\* it leaves the row identical in every field.
C17_UpdateStatusIdempotent ==
    [][(ev.op = "update_status" /\ ev'.op = "update_status" /\ ev'.effects = ev.effects)
          => db' = db]_vars

\* C18: for each row the committed updated_at values never decrease.
C18_UpdatedAtMonotone ==
    [][\A t \in 1..Len(db) :
          db[t].updated_at # None
             => /\ db'[t].updated_at # None
                /\ db'[t].updated_at[1] >= db[t].updated_at[1]]_vars

\* C19: a pending row has no slurm_job_id, and a running, completed or
\* failed row has one; only a canceled row may lack it.
C19_JobIdMatchesStatus ==
    \A t \in 1..Len(db) :
        /\ db[t].status = "pending" => db[t].slurm_job_id = None
        /\ db[t].status \in {"running", "completed", "failed"} => db[t].slurm_job_id # None

\* The outcomes of RemoteSlurmService.submit_job for a staged submission.
RemoteSubmitOutcomes == {"ok", "ok_nojob", "http_error", "unreachable"}

\* C20: a staged remote submission moves the task to running only on HTTP
\* 200 with a slurm_job_id, then stored on the row; every other outcome
\* moves it to failed.
C20_RemoteSubmitOutcome ==
    [][\A t \in 1..Len(db) : \A o \in RemoteSubmitOutcomes :
          SubmitRemote(t, o)
             => IF o = "ok"
                THEN db'[t].status = "running" /\ db'[t].slurm_job_id = Some(nextJob)
                ELSE db'[t].status = "failed"]_vars

\* C21: the remote submit POST of a task is issued only by a handler whose
\* staging copy and rsync push both succeeded; a failed rsync (non-zero exit
\* or timeout) commits failed, answers 500 and ends the handler, so that no
\* request for the task goes to the Remote Server.
C21_RemotePostOnlyAfterRsync ==
    [][\A t \in 1..Len(db) :
          /\ ("remote_submit" \in ev'.effects /\ ev'.task = t)
                => req[t].pc = "remote_submit"
          /\ (req[t].pc # "remote_submit" /\ req'[t].pc = "remote_submit")
                => SubmitRsync(t, TRUE)
          /\ (req[t].pc # "rsync" /\ req'[t].pc = "rsync") => SubmitStage(t, "ok")
          /\ SubmitRsync(t, FALSE)
                => /\ db'[t].status = "failed" /\ ev'.code = 500
                   /\ req'[t].pc = "done"
          /\ req[t].pc = "done" => req'[t].pc = "done"]_vars

\* C21 witness: a submit was answered 500 by a failed rsync, the row is
\* failed and the handler is over.
C21_Witness ==
    /\ ev.op = "submit" /\ ev.code = 500 /\ ev.effects = {"rsync"}
    /\ db[ev.task].status = "failed" /\ req[ev.task].pc = "done"

\* A handler is inside the stage+rsync section of its user's staging
\* directory: copy_to_temp has wiped and filled it and rsync_to_remote has
\* not returned.
InStageSection(t) == req[t].pc = "rsync"

\* C22: for any username at most one submit operation at a time is inside
\* the stage+rsync section: no handler wipes the staging directory while
\* another handler of the same user is between its wipe and its rsync return.
C22_StagingSerialised ==
    [][\A t1, t2 \in 1..Len(db) :
          (t1 # t2 /\ db[t1].username = db[t2].username /\ InStageSection(t1))
             => /\ ~InStageSection(t2)
                /\ \A o \in {"ok", "empty", "raise"} : ~SubmitStage(t2, o)]_vars

\* C23: the poll loop issues a status query only for a row that it holds,
\* in that iteration, with status pending or running and with a job id; it
\* neither queries nor writes a row it holds as completed, failed or canceled.
C23_PollOnlyOpenRows ==
    poll.pc = "query"
       => poll.row.status \in {"pending", "running"} /\ poll.row.slurm_job_id # None

\* The tasks a running iteration has still to poll.
TodoSet(p) == {p.todo[i] : i \in 1..Len(p.todo)}

\* The tasks an iteration is polling or has still to poll.
Remaining(p) == IF p.pc = "query" THEN {p.cur} \cup TodoSet(p) ELSE {}

\* The poll of the current task fails: no status answer, or the update raises.
PollFails == PollNoResult \/ \E job_info \in JobInfos : PollUpdateRaises(job_info)

C25_TerminalPollCommits ==
    [][\A job_info \in JobInfos :
          (/\ poll.pc = "query"
           /\ poll.row.status \in {"pending", "running"}
           /\ PolledStatus(poll.row, job_info) \in Terminal
           /\ PollResult(job_info))
             => LET row == db'[poll.cur]
                IN /\ row.status = PolledStatus(poll.row, job_info)
                   /\ Head(job_info.state) = "COMPLETED" => row.status = "completed"
                   /\ Head(job_info.state) = "CANCELLED" => row.status = "canceled"
                   /\ job_info.exit_code # None => row.exit_code = job_info.exit_code
                   /\ row.completed_at = Some(clock')]_vars

\* C25 witness: a poll observed CANCELLED with exit code 1 and committed
\* canceled with exit_code 1 and completed_at.
C25_Witness ==
    /\ ev.op = "poll" /\ Exists(ev.task)
    /\ db[ev.task].status = "canceled" /\ db[ev.task].exit_code = Some(1)
    /\ db[ev.task].completed_at = Some(clock)

\* The position of a status along pending -> running -> terminal.
StatusRank(status) ==
    IF status = "pending" THEN 0 ELSE IF status = "running" THEN 1 ELSE 2

\* C26: a task's status only moves forward along pending -> running ->
\* {completed, failed, canceled}; in particular no step moves a running row
\* back to pending.
C26_StatusMovesForward ==
    [][\A t \in 1..Len(db) :
          db[t].status \in Unified /\ db'[t].status \in Unified
             => StatusRank(db'[t].status) >= StatusRank(db[t].status)]_vars

\* The base token of a state string: the text before a trailing " (Reason)".
BaseToken(str) ==
    IF /\ Len(str) >= 2 /\ str[Len(str)] = "(Resources)" /\ str[Len(str) - 1] = Space
    THEN SubSeq(str, 1, Len(str) - 2) ELSE str

\* C27: map_slurm_state applied to any state string returns the table's
\* value for the base token when the table lists it, and unknown for every
\* other token, the empty string included.
C27_MapByBaseToken ==
    ev.op = "returned"
       => \A call \in ev.effects :
             LET base == BaseToken(call[1])
             IN call[2] = IF Len(base) = 1 /\ base[1] \in DOMAIN SLURM_STATE_MAP
                          THEN SLURM_STATE_MAP[base[1]] ELSE "unknown"

\* The paths from the first component below upload_dir down to the file.
BelowUpload(file_path) ==
    {SubSeq(file_path, 1, n) : n \in (Len(upload_dir) + 1)..Len(file_path)}

Listed(call) ==
    {call.logs_paths[i] : i \in 1..Len(call.logs_paths)}
       \cup {call.results_paths[i] : i \in 1..Len(call.results_paths)}

\* A path of the disk that lies under the work directory.
UnderWork(path) == Len(path) > Len(work_path) /\ SubSeq(path, 1, Len(work_path)) = work_path

\* The entries the archive is to hold: the existing Slurm artifacts under
\* slurm/, the listed existing files under the work directory, and the
\* files of the listed existing directories.
ExpectedEntries(call) ==
    {<<"slurm", SlurmSuffixes[i]>> : i \in {j \in 1..3 :
         work_path \o <<".slurm", SlurmSuffixes[j]>> \in call.disk}}
      \cup {rel \in Listed(call) :
               work_path \o rel \in call.disk /\ UnderWork(normalise(work_path \o rel))}
      \cup UNION {{relative_to_work(f) : f \in {g \in call.disk :
                       UnderWork(g) /\ work_path \o rel \in parents(g)}} :
                 rel \in Listed(call)}

\* C29: the result archive holds exactly the expected entries, each once.
C29_ArchiveExactlyListed ==
    ev.op = "archived"
       => \A call \in ev.effects : \A name \in ArcNames :
             call.archive[name] = IF name \in ExpectedEntries(call) THEN 1 ELSE 0

\* C30: when the job of a task has settled in a state mapped to completed,
\* failed or canceled, the task row eventually has that status, whatever
\* states were observed before (as long as the clock of the model has not
\* run out).
C30_SettledJobReachesRow ==
    \A t \in TaskIds : \A status \in Terminal :
        (/\ Exists(t) /\ db[t].slurm_job_id # None
         /\ slurm[db[t].slurm_job_id[1]].final
         /\ map_slurm_state(slurm[db[t].slurm_job_id[1]].state) = status)
           ~> (db[t].status = status \/ clock = MaxClock)

\* The job rows of a sacct run: the lines that are no sub-step and carry a
\* state; a run that did not exit 0 yields none.
JobRows(sacct) ==
    IF sacct.raises # "" \/ sacct.returncode # 0 THEN <<>>
    ELSE SelectSeq(sacct.stdout,
                   LAMBDA line : line # <<>> /\ ~is_substep(line) /\ Len(line) >= 2)

\* C31: get_slurm_job_status falls back to squeue whenever sacct yields no
\* job row (sacct exiting 0 with empty output included) and then returns the
\* state squeue reports; when sacct yields rows it returns the state and the
\* code part of the exit code of the first row that is no sub-step.
C31_SqueueWhenNoSacctRow ==
    ev.op = "returned" =>
        \A r \in ev.effects :
            LET sacct == r[1]
                squeue == r[2]
                out == r[3]
            IN IF sacct.raises = "" /\ JobRows(sacct) = <<>>
               THEN /\ out.squeue_ran
                    /\ squeue.raises = "" /\ squeue.returncode = 0 /\ Len(squeue.stdout) >= 2
                         => out.info = Some([state |-> squeue.stdout[2], exit_code |-> None])
               ELSE sacct.raises = "" =>
                      /\ out.info # None
                      /\ out.info[1].state = JobRows(sacct)[1][2]
                      /\ JobRows(sacct)[1][3] # <<>>
                           => out.info[1].exit_code = Some(JobRows(sacct)[1][3][1])

\* sbatch exited 0 and its stdout holds "Submitted batch job <digits>".
SbatchAccepted(run) ==
    /\ run.raises = "" /\ run.returncode = 0
    /\ \E i \in 1..(Len(run.stdout) - 1) :
          run.stdout[i] = Marker /\ run.stdout[i + 1].kind = "digits"

\* The digits after the first "Submitted batch job " that is followed by digits.
FirstJobNumber(stdout) ==
    LET i == CHOOSE i \in 1..(Len(stdout) - 1) :
                 /\ stdout[i] = Marker /\ stdout[i + 1].kind = "digits"
                 /\ \A j \in 1..(i - 1) :
                       ~(stdout[j] = Marker /\ stdout[j + 1].kind = "digits")
    IN stdout[i + 1].n

\* C32: a local submit succeeds exactly when sbatch exits 0 and prints
\* "Submitted batch job <digits>", and the row then carries exactly those
\* digits as its job id; after every other outcome of sbatch (non-zero exit,
\* unparseable output, timeout, missing binary, another exception) the task is
\* failed and the answer is 500 with the reason.
C32_SbatchFailureFailsTask ==
    [][\A t \in TaskIds : SubmitSbatch(t) =>
          IF SbatchAccepted(slurm.sbatch)
          THEN /\ ev'.code = 200
               /\ db'[t].status = "running"
               /\ db'[t].slurm_job_id = Some(FirstJobNumber(slurm.sbatch.stdout))
          ELSE /\ ev'.code = 500
               /\ db'[t].status = "failed"
               /\ db'[t].slurm_job_id = None
               /\ \E reason \in {"stderr", "unparseable", "timeout", "sbatch not found",
                                 "OSError"} : reason \in ev'.effects]_vars

\* sbatch printed a job number but exited non-zero, and the task is failed.
C32_Witness ==
    /\ ev.op = "submit" /\ ev.code = 500
    /\ slurm.sbatch.raises = "" /\ slurm.sbatch.returncode = 1
    /\ Matches(slurm.sbatch.stdout) # {}
    /\ db[1].status = "failed"

\* The user's commands among the simple commands a run executed.
UserRan(ran) == SelectSeq(ran, LAMBDA a : a \in Atoms)

\* C33: running the generated batch script is the same as running the
\* stored "&&"-joined command string: the same commands run (command i+1
\* only if commands 1..i exited 0), the trailer prints the status of the
\* chain, and splitting the stored string on " && " gives back the list.
C33_ScriptIsAndChain ==
    ev.op = "ran" =>
        \A r \in ev.effects :
            /\ UserRan(r.script.ran) = r.chain.ran
            /\ r.script.reported = Some(r.chain.status)
            /\ r.split = r.commands

\* C34: once stop() has set the stop event, the poll loop starts no further
\* iteration and terminates: the event stays set while the thread lives, the
\* loop test under the set event ends the thread, and the thread (waiting or
\* inside an iteration) gets there, after which is_running() is false.
C34_StopEndsLoop ==
    /\ [][\A th \in DOMAIN svc.threads :
             /\ svc.stop_event /\ is_alive(th) /\ svc'.threads[th] # "exited"
                  => svc'.stop_event
             /\ svc.stop_event /\ LoopTest(th) => svc'.threads[th] = "exited"]_vars
    /\ \A th \in ThreadIds :
          (th \in DOMAIN svc.threads /\ svc.stop_event /\ is_alive(th))
             ~> (th \in DOMAIN svc.threads /\ svc.threads[th] = "exited" /\ ~is_running)

\* stop() gave up joining a thread inside an iteration, and the thread has
\* exited since.
C34_Witness ==
    /\ ev.op = "_poll_loop" /\ "exit" \in ev.effects
    /\ svc.call["main"].last = "stop"
    /\ svc.stop_event /\ ~is_running

\* C35: within one process at most one poll thread is alive at any time,
\* over every interleaving of start() and stop() calls, two start() calls
\* running at once included.
C35_AtMostOnePollThread ==
    Cardinality({th \in DOMAIN svc.threads : is_alive(th)}) <= 1

\* C40: after start() has returned and until stop() is called again, a poll
\* thread is alive and goes on iterating (the stop event is not set), also
\* when start() follows a stop() whose join timed out on a thread inside an
\* iteration.
C40_StartedKeepsPolling ==
    svc.call["main"] = [pc |-> "idle", last |-> "start"]
        => is_running /\ ~svc.stop_event

\* C36: when the status query of a polled task yields no result, the poll
\* leaves every field of every row as it is, and the task, still pending or
\* running with its job id, is eligible for the next iteration.
C36_NoResultLeavesRow ==
    [][PollNoResult =>
          /\ db' = db
          /\ db'[poll.cur] = poll.row
          /\ db'[poll.cur].status \in {"pending", "running"}
          /\ Eligible(db'[poll.cur])]_vars

\* The last status query of an iteration returned nothing; the row is still
\* running and the loop waits for its next iteration.
C36_Witness ==
    /\ ev.op = "poll" /\ ev.effects = {"status_query"} /\ ev.task \in PollTasks
    /\ poll.pc = "idle"
    /\ db[ev.task].status = "running" /\ Eligible(db[ev.task])

\* C37: every request is answered with one of 200, 400, 403, 404 and 500:
\* 404 when the addressed task does not exist, 400 when the body is missing
\* or is not JSON, and 500 when the remote fetch fails.  (ev.code is 0 while
\* a handler is between two of its steps.)
C37_AnswersByKind ==
    [][/\ ev'.code \in {0, 200, 400, 403, 404, 500}
       /\ (ev'.op \in {"status", "logs", "fetch", "cancel"} /\ ~Exists(ev'.task))
             => ev'.code = 404
       /\ \A handler \in PostHandlers : \A kind \in BodyKinds :
             \A data \in get_json(kind) : BadBody(handler, kind, data) => ev'.code = 400
       /\ \A t \in 1..Len(db) : \A u \in UserParams :
             (/\ db[t].target = "remote" /\ ~OwnerMismatch(u, db[t])
              /\ ev'.op = "fetch" /\ ev'.code # 200 /\ FetchRequest(t, u, FALSE))
                => ev'.code = 500]_vars

\* C38: slurm_job_id is write-once: a job id stored in a row is never
\* replaced by another value; and the attach endpoint changes a row only
\* when it is a local-run row, pending and without a job id, never a row of
\* target local or remote and never a row in a terminal state.
C38_JobIdWriteOnce ==
    [][\A t \in 1..Len(db) :
          /\ db[t].slurm_job_id # None => db'[t].slurm_job_id = db[t].slurm_job_id
          /\ (ev'.op = "attach" /\ ev'.task = t /\ db'[t] # db[t])
                => /\ db[t].target = "local-run"
                   /\ db[t].status = "pending"
                   /\ db[t].slurm_job_id = None]_vars

\* The Slurm jobs submitted so far on behalf of task t: the one its row
\* carries, and the one sbatch gave to the CLI that has yet to attach it.
JobsOf(t) == {j \in JobIds : db[t].slurm_job_id = Some(j) \/ req[t].job = Some(j)}

\* C39: no Slurm job is orphaned by a cancel: when a cancel is answered 200,
\* a scancel or a remote cancel was issued in that request for every job
\* submitted for the task so far (a local-run job not yet attached included),
\* and no job is submitted afterwards for a task that is canceled (a submit
\* that was in flight when the cancel ran).
C39_CancelLeavesNoJob ==
    [][\A t \in 1..Len(db) :
          /\ (ev'.op = "cancel" /\ ev'.code = 200 /\ ev'.task = t)
                => \A j \in JobsOf(t) :
                      /\ can[t].job = Some(j)
                      /\ ev'.effects \cap {"scancel", "remote_cancel"} # {}
          /\ db[t].status = "canceled" => ~(nextJob' # nextJob /\ ev'.task = t)]_vars

====
